---- MODULE Spec2Model ----
(***************************************************************************)
(* Snippet vault (Chrome extension): the popup's embedding cache, ranking  *)
(* and search controller (two-area popup script), the background service   *)
(* worker (background.js) and the storage they share.                      *)
(*                                                                         *)
(* Scheduling model.  Every context is single threaded; an async function  *)
(* runs from one await to the next without interruption, so one action of  *)
(* this module is one such run: the completion of the awaited operation    *)
(* followed by everything the code does up to its next real suspension     *)
(* (an await of an already settled promise does not let another event in). *)
(* A chrome.storage call takes effect when it completes; the data of a     *)
(* write is the value serialised when the call was made.                   *)
(***************************************************************************)
EXTENDS Integers, Sequences, FiniteSets, TLC

(***************************************************************************)
(* Bounds of the model.                                                    *)
(***************************************************************************)
MaxOps == 2          \* user operations issued in the popup per behaviour
MaxLoadOps == 1      \* user operations issued while and after the popup loads (SpecLoad)
MaxCaptures == 1     \* context-menu captures handled by the background
MaxPasses == 2       \* ensureEmbeddings requests in the background-only specification
MaxListLen == 2      \* longest stored list in the specifications that call one function
MaxCalls == 1        \* calls per behaviour there
MaxRequests == 3     \* embedText messages the offscreen document receives
MaxItems == 2        \* longest item list handed to ensureEmbeddings there
MaxDim == 3          \* longest vector handed to getCosineSimilarity

(***************************************************************************)
(* Values.                                                                 *)
(***************************************************************************)
Areas == {"local", "sync"}
AreaOrder == <<"local", "sync">>
OtherArea(area) == IF area = "local" THEN "sync" ELSE "local"

NoId == ""
NoVec == <<>>
\* i1..i3 are stored items, n1 and n2 are ids generated by the popup's backfill,
\* c1.. by the background's captures (crypto.randomUUID never repeats).
AllIds == {"i1", "i2", "i3", "n1", "n2", "c1", "c2"}
EmptyIndex == [i \in AllIds |-> NoVec]
Keys(index) == {i \in AllIds : index[i] # NoVec}

Item(id, text) == [id |-> id, text |-> text]
I1 == Item("i1", "ta")
I2 == Item("i2", "tb")
I3 == Item("i3", "tc")

\* String.prototype.trim on the texts of the model: the blank texts trim to "".
Trim(s) == IF s \in {"", " "} THEN "" ELSE s

\* The embedding model: a deterministic function of the text (integer
\* multiples of the unit vectors; cosine similarity is scale invariant).
Embed(text) ==
  CASE text = "ta" -> <<1, 0>>
    [] text = "tb" -> <<0, 1>>
    [] text = "tc" -> <<9, 1>>
    [] text = "a" -> <<1, 0>>
    [] text = "b" -> <<0, 1>>
    [] OTHER -> <<1, 1>>

Ids(list) == {list[k].id : k \in 1..Len(list)}
RemoveAt(list, k) == [j \in 1..(Len(list) - 1) |-> IF j < k THEN list[j] ELSE list[j + 1]]
\* Array.prototype.findIndex: the first position holding the id, 0 for -1.
FindIndex(list, id) ==
  IF \E k \in 1..Len(list) : list[k].id = id
  THEN CHOOSE k \in 1..Len(list) : list[k].id = id /\ \A j \in 1..(k - 1) : list[j].id # id
  ELSE 0

(***************************************************************************)
(* Vector math and ranking (pure).                                         *)
(***************************************************************************)
RECURSIVE DotFrom(_, _, _)
DotFrom(a, b, k) == IF k > Len(a) THEN 0 ELSE a[k] * b[k] + DotFrom(a, b, k + 1)
Dot(a, b) == DotFrom(a, b, 1)

\* A component for which Number.isFinite is false (NaN, an infinity, a value
\* that is not a number); every other component is an integer.
NonFinite == -99
\* (mutant) getCosineSimilarity without the test of the norms.
CosineErrorAllowingZero(a, b) ==
  IF Len(a) # Len(b) THEN "Cosine similarity requires vectors of equal length."
  ELSE IF \E k \in 1..Len(a) : a[k] = NonFinite \/ b[k] = NonFinite
       THEN "Cosine similarity requires finite vector values."
  ELSE ""
\* getCosineSimilarity: the error it throws, or "" when it returns a number.
CosineError(a, b) ==
  IF Len(a) # Len(b) THEN "Cosine similarity requires vectors of equal length."
  ELSE IF \E k \in 1..Len(a) : a[k] = NonFinite \/ b[k] = NonFinite
       THEN "Cosine similarity requires finite vector values."
  ELSE IF Dot(a, a) = 0 \/ Dot(b, b) = 0 THEN "Cosine similarity requires non-zero vectors."
  ELSE ""

\* The number it returns, dot / (sqrt(normA) * sqrt(normB)), kept exact as the
\* pair of the dot product and the product of the squared norms.
getCosineSimilarity(a, b) == [dot |-> Dot(a, b), norms |-> Dot(a, a) * Dot(b, b)]
NoScore == [dot |-> 0, norms |-> 0]
\* One call of getCosineSimilarity(a, b): "called", then "returned" with its
\* score or "threw" with its error.
NoCall == [pc |-> "none", a |-> <<>>, b |-> <<>>, error |-> "", score |-> NoScore]
Compared(c) ==
  IF CosineError(c.a, c.b) # ""
  THEN [c EXCEPT !.pc = "threw", !.error = CosineError(c.a, c.b)]
  ELSE [c EXCEPT !.pc = "returned", !.score = getCosineSimilarity(c.a, c.b)]

SignedSquare(x) == IF x < 0 THEN -(x * x) ELSE x * x
\* s1 > s2 as real numbers.
ScoreGreater(s1, s2) == SignedSquare(s1.dot) * s2.norms > SignedSquare(s2.dot) * s1.norms

\* scored.sort((a, b) => b.score - a.score): stable, score descending.
RECURSIVE InsertByScoreUnstable(_, _, _)
InsertByScoreUnstable(sorted, row, k) ==
  IF k > Len(sorted) THEN Append(sorted, row)
  ELSE IF ~ScoreGreater(sorted[k].score, row.score)
       THEN SubSeq(sorted, 1, k - 1) \o <<row>> \o SubSeq(sorted, k, Len(sorted))
       ELSE InsertByScoreUnstable(sorted, row, k + 1)
RECURSIVE InsertByScore(_, _, _)
InsertByScore(sorted, row, k) ==
  IF k > Len(sorted) THEN Append(sorted, row)
  ELSE IF ScoreGreater(row.score, sorted[k].score)
       THEN SubSeq(sorted, 1, k - 1) \o <<row>> \o SubSeq(sorted, k, Len(sorted))
       ELSE InsertByScore(sorted, row, k + 1)
RECURSIVE SortByScoreFrom(_, _, _)
SortByScoreFrom(rows, k, acc) ==
  IF k > Len(rows) THEN acc ELSE SortByScoreFrom(rows, k + 1, InsertByScore(acc, rows[k], 1))
SortByScore(rows) == SortByScoreFrom(rows, 1, <<>>)

Row(snippet, area, score) == [snippet |-> snippet, area |-> area, score |-> score]

\* getAllSnippetItems: every area's items, in area order then stored order.
AreaRows(list, area) == [k \in 1..Len(list) |-> Row(list[k], area, NoScore)]
getAllSnippetItems(snips) == AreaRows(snips["local"], "local") \o AreaRows(snips["sync"], "sync")

\* getSnippetVector: the error it throws, or "" when it returns the vector.
VectorError(snippet, index) ==
  IF Trim(snippet.text) = "" THEN "Snippet text is required for embeddings."
  ELSE IF snippet.id = NoId THEN "Snippet ID is required for embeddings."
  ELSE IF index[snippet.id] = NoVec THEN "Missing embedding for snippet"
  ELSE ""

\* The loop of rankSnippets over allSnippets (rows): the first error thrown by
\* getSnippetVector or getCosineSimilarity, "" when every item scores.
RECURSIVE RowsErrorFrom(_, _, _, _)
RowsErrorFrom(rows, index, qv, k) ==
  IF k > Len(rows) THEN ""
  ELSE LET ve == VectorError(rows[k].snippet, index) IN
       IF ve # "" THEN ve
       ELSE LET ce == CosineError(qv, index[rows[k].snippet.id]) IN
            IF ce # "" THEN ce ELSE RowsErrorFrom(rows, index, qv, k + 1)
\* The scored rows after scored.sort(...).
ScoreRows(rows, index, qv) ==
  SortByScore([k \in 1..Len(rows) |->
     Row(rows[k].snippet, rows[k].area, getCosineSimilarity(qv, index[rows[k].snippet.id]))])

\* pruneEmbeddingsIndex: the index without the entries of ids no area holds.
LiveIds(snips) == Ids(snips["local"]) \cup Ids(snips["sync"])
pruneEmbeddingsIndexKeepsAll(snips, index) == index
pruneEmbeddingsIndex(snips, index) ==
  [i \in AllIds |-> IF i \in LiveIds(snips) THEN index[i] ELSE NoVec]
\* The error it throws: an item without an id.
PruneError(snips) ==
  IF NoId \in LiveIds(snips) THEN "Snippet entry is invalid." ELSE ""

(***************************************************************************)
(* State.                                                                  *)
(***************************************************************************)
VARIABLES
  snippetsByArea,    \* popup: area -> list of items (in memory)
  activeArea,        \* popup: the selected tab
  embeddingsIndex,   \* popup: the in-memory embedding cache, id -> vector
  searchToken,       \* popup: the request counter
  searchInput,       \* popup: value of the search box
  status,            \* popup: the status line, [message, state]
  title,             \* popup: the list title
  display,           \* popup: the rendered list, [rows, empty, by]
  tasks,             \* popup: the async operations issued, in issue order
  storedSnippets,    \* chrome.storage[area].snippets
  storedIndex,       \* chrome.storage.local.snippet_embeddings_v1
  indexWrites,       \* number of completed writes of that key (history)
  passes,            \* background: ensureEmbeddings calls not sent by the popup model
  captures,          \* background: handleSaveSnippet calls
  pruned,            \* history: the last step ran pruneEmbeddingsIndex
  offscreen,         \* offscreen document: embedderPromise and the embedText requests
  cosine,            \* one call of getCosineSimilarity: its arguments and its outcome
  chromeOffscreen,   \* background: the chrome.offscreen document and the embedText calls
  listPopup          \* the single-list popup: its list, cache, rendered rows and deletes

popupVars == <<snippetsByArea, activeArea, embeddingsIndex, searchToken, searchInput,
               status, title, display>>
vars == <<snippetsByArea, activeArea, embeddingsIndex, searchToken, searchInput,
          status, title, display, tasks, storedSnippets, storedIndex, indexWrites,
          passes, captures, pruned, offscreen, cosine, chromeOffscreen,
          listPopup>>

(***************************************************************************)
(* background.js: ensureEmbeddings(items), one call of it as a record.     *)
(*   pc      "load"  awaiting loadEmbeddingsIndex()                        *)
(*           "embed" awaiting embedText(items[pos].text)                   *)
(*           "write" awaiting setStorage of the whole map                  *)
(*           "ok" returned `updated`; "fail" threw `error`; "none" no call *)
(*   index   its local embeddingsIndex                                     *)
(*   calls   history: the ids embedText was called for, in call order      *)
(*   loaded  history: the map as loadEmbeddingsIndex returned it           *)
(*   loadedAt, returnedAt  history: indexWrites at the load and the return *)
(*   owner   the popup task awaiting the response, 0 when there is none    *)
(***************************************************************************)
NoPass ==
  [pc |-> "none", items |-> <<>>, index |-> EmptyIndex, pos |-> 0, updated |-> 0,
   error |-> "", calls |-> <<>>, loaded |-> EmptyIndex, loadedAt |-> 0, returnedAt |-> 0,
   owner |-> 0]

\* The call up to its first await.
ensureEmbeddings(items) == [NoPass EXCEPT !.pc = "load", !.items = items]

\* The validation of one item: the error thrown, "" when it is valid.
ItemError(item) ==
  IF item.id = NoId THEN "Embedding item requires an id."
  ELSE IF Trim(item.text) = "" THEN "Embedding item requires text."
  ELSE ""

\* (mutant) the loop without the `if (embeddingsIndex[item.id]) continue`.
RECURSIVE EnsureLoopNoSkip(_, _, _)
EnsureLoopNoSkip(p, k, writes) ==
  IF k > Len(p.items)
  THEN IF p.updated > 0
       THEN [p EXCEPT !.pc = "write", !.pos = k]
       ELSE [p EXCEPT !.pc = "ok", !.pos = k, !.returnedAt = writes]
  ELSE IF ItemError(p.items[k]) # ""
       THEN [p EXCEPT !.pc = "fail", !.pos = k, !.error = ItemError(p.items[k])]
       ELSE [p EXCEPT !.pc = "embed", !.pos = k, !.calls = Append(@, p.items[k].id)]

\* (mutant) the loop taking the last missing item first.
RECURSIVE EnsureLoopLastFirst(_, _, _)
EnsureLoopLastFirst(p, k, writes) ==
  LET missing == {j \in k..Len(p.items) : p.index[p.items[j].id] = NoVec} IN
  IF missing = {}
  THEN IF p.updated > 0
       THEN [p EXCEPT !.pc = "write", !.pos = Len(p.items) + 1]
       ELSE [p EXCEPT !.pc = "ok", !.pos = Len(p.items) + 1, !.returnedAt = writes]
  ELSE LET j == CHOOSE m \in missing : \A o \in missing : o <= m IN
       [p EXCEPT !.pc = "embed", !.pos = j, !.calls = Append(@, p.items[j].id)]

\* The for loop from item k on, until the next await, the return or a throw.
RECURSIVE EnsureLoop(_, _, _)
EnsureLoop(p, k, writes) ==
  IF k > Len(p.items)
  THEN IF p.updated > 0
       THEN [p EXCEPT !.pc = "write", !.pos = k]
       ELSE [p EXCEPT !.pc = "ok", !.pos = k, !.returnedAt = writes]
  ELSE IF ItemError(p.items[k]) # ""
       THEN [p EXCEPT !.pc = "fail", !.pos = k, !.error = ItemError(p.items[k])]
       ELSE IF p.index[p.items[k].id] # NoVec
            THEN EnsureLoop(p, k + 1, writes)
            ELSE [p EXCEPT !.pc = "embed", !.pos = k, !.calls = Append(@, p.items[k].id)]

\* (mutant) the call starts from an empty map instead of the stored one.
EnsureLoadedEmpty(p, stored, writes) ==
  EnsureLoop([p EXCEPT !.index = EmptyIndex, !.loaded = stored, !.loadedAt = writes], 1, writes)

\* loadEmbeddingsIndex() returned `stored`.
EnsureLoaded(p, stored, writes) ==
  EnsureLoop([p EXCEPT !.index = stored, !.loaded = stored, !.loadedAt = writes], 1, writes)

\* ensureEmbeddings saving the vectors it has when embedText throws.
EnsureEmbeddedSavingProgress(p, ok, writes) ==
  IF ok
  THEN EnsureLoop([p EXCEPT !.index[p.items[p.pos].id] = Embed(p.items[p.pos].text),
                            !.updated = @ + 1], p.pos + 1, writes)
  ELSE IF p.updated > 0 THEN [p EXCEPT !.pc = "write", !.error = "Embedding failed."]
  ELSE [p EXCEPT !.pc = "fail", !.error = "Embedding failed."]
\* embedText returned (ok) or threw.
EnsureEmbedded(p, ok, writes) ==
  IF ok
  THEN EnsureLoop([p EXCEPT !.index[p.items[p.pos].id] = Embed(p.items[p.pos].text),
                            !.updated = @ + 1], p.pos + 1, writes)
  ELSE [p EXCEPT !.pc = "fail", !.error = "Embedding failed."]

\* setStorage completed (ok) or was rejected; writes counts the write itself.
EnsureWritten(p, ok, writes) ==
  IF ok THEN [p EXCEPT !.pc = "ok", !.returnedAt = writes]
  ELSE [p EXCEPT !.pc = "fail", !.error = "Storage write failed"]

PassRunning(p) == p.pc \in {"load", "embed", "write"}

(***************************************************************************)
(* The popup.  P is the popup's memory and DOM as a record, so that the    *)
(* synchronous stretches of the code are operators from P to P.            *)
(***************************************************************************)
Popup ==
  [snips |-> snippetsByArea, active |-> activeArea, index |-> embeddingsIndex,
   token |-> searchToken, input |-> searchInput, status |-> status, title |-> title,
   display |-> display]

Status(message, state) == [message |-> message, state |-> state]
setStatus(P, message, state) == [P EXCEPT !.status = Status(message, state)]

AreaTitle(area) == IF area = "local" THEN "Local snippets" ELSE "Synced snippets"
EmptyMessage(area) ==
  IF area = "local" THEN "No local snippets yet." ELSE "No synced snippets yet."

\* renderEmptyState(message); `by` is history: the requestId of the search
\* that rendered, 0 for an unranked rendering.
renderEmptyState(P, message, by) ==
  [P EXCEPT !.display = [rows |-> <<>>, empty |-> message, by |-> by]]
displaySnippets(P, rows, by) ==
  IF Len(rows) = 0 THEN renderEmptyState(P, EmptyMessage(P.active), by)
  ELSE [P EXCEPT !.display = [rows |-> rows, empty |-> "", by |-> by]]
DisplayActive(P) == displaySnippets(P, AreaRows(P.snips[P.active], P.active), 0)

(***************************************************************************)
(* A popup task: one call of an async function of the popup.               *)
(*   kind    "filter" | "tab" | "delete" | "clear" | "move" | "load"       *)
(*   pc      the await it is suspended at, "done" once it has settled      *)
(*   result  "" while running; "done", "failed" (it rejected) or           *)
(*           "superseded" (filterSnippets returned on a token mismatch)    *)
(*   error   the error last thrown in it                                   *)
(*   pass    index in `passes` of its ensureEmbeddings request, 0 if none  *)
(*   rows    filterSnippets: allSnippets as captured by rankSnippets       *)
(*   payload the data of the storage write it awaits                       *)
(*   dest    moveSnippet: destinationSnippets once the area's array was    *)
(*           replaced (detached), else unused                              *)
(***************************************************************************)
NoTask ==
  [kind |-> "", pc |-> "done", result |-> "", error |-> "", query |-> "", requestId |-> 0,
   area |-> "local", id |-> NoId, target |-> "local", pass |-> 0, rows |-> <<>>,
   payload |-> <<>>, dest |-> <<>>, detached |-> FALSE]

\* What a synchronous stretch yields: the popup, the task, and the items of
\* the ensureEmbeddings request it sent (<<>> when it sent none).
Step(P, t, req) == [P |-> P, t |-> t, req |-> req]
Settle(t, result) == [t EXCEPT !.pc = "done", !.result = result, !.rows = <<>>, !.payload = <<>>]

\* ensureMissingEmbeddings(area) up to its await.
RECURSIVE SnippetErrorFrom(_, _)
SnippetErrorFrom(list, k) ==
  IF k > Len(list) THEN ""
  ELSE IF list[k].id = NoId THEN "Snippet ID is required for embeddings."
  ELSE IF Trim(list[k].text) = "" THEN "Snippet text is required for embeddings."
  ELSE SnippetErrorFrom(list, k + 1)
MissingFrom(list, index) == SelectSeq(list, LAMBDA sn : index[sn.id] = NoVec)
ensureMissingEmbeddings(P, area) ==
  LET list == P.snips[area] IN
  IF Len(list) = 0 THEN [outcome |-> "return", P |-> P, req |-> <<>>, error |-> ""]
  ELSE IF SnippetErrorFrom(list, 1) # ""
  THEN [outcome |-> "throw", P |-> P, req |-> <<>>, error |-> SnippetErrorFrom(list, 1)]
  ELSE IF MissingFrom(list, P.index) = <<>>
  THEN [outcome |-> "return", P |-> P, req |-> <<>>, error |-> ""]
  ELSE [outcome |-> "await", P |-> setStatus(P, "Preparing embeddings...", "loading"),
        req |-> MissingFrom(list, P.index), error |-> ""]

(***************************************************************************)
(* filterSnippets.                                                         *)
(***************************************************************************)
\* The catch block.
FilterCatchClearingList(P, t, message) ==
  IF t.requestId # P.token
  THEN Step(P, Settle([t EXCEPT !.error = message], "superseded"), <<>>)
  ELSE Step(renderEmptyState(setStatus(P, message, "error"), message, t.requestId),
            Settle([t EXCEPT !.error = message], "failed"), <<>>)
FilterCatch(P, t, message) ==
  IF t.requestId # P.token
  THEN Step(P, Settle([t EXCEPT !.error = message], "superseded"), <<>>)
  ELSE Step(setStatus(P, message, "error"), Settle([t EXCEPT !.error = message], "failed"), <<>>)

\* (mutant) the rendering without the second token check.
FilterRenderUnchecked(P, t, ranked) ==
  LET Q == [setStatus(P, "", "idle") EXCEPT !.title = "Search results"] IN
  IF Len(ranked) = 0
  THEN Step(renderEmptyState(Q, "No matches in local or synced snippets.", t.requestId),
            Settle(t, "done"), <<>>)
  ELSE Step(displaySnippets(Q, ranked, t.requestId), Settle(t, "done"), <<>>)

\* From the second token check on, with the ranking rankSnippets returned.
FilterRender(P, t, ranked) ==
  IF t.requestId # P.token THEN Step(P, Settle(t, "superseded"), <<>>)
  ELSE LET Q == [setStatus(P, "", "idle") EXCEPT !.title = "Search results"] IN
       IF Len(ranked) = 0
       THEN Step(renderEmptyState(Q, "No matches in local or synced snippets.", t.requestId),
                 Settle(t, "done"), <<>>)
       ELSE Step(displaySnippets(Q, ranked, t.requestId), Settle(t, "done"), <<>>)

\* From the first token check to the await of embedQuery.
FilterSearch(P, t) ==
  IF t.requestId # P.token THEN Step(P, Settle(t, "superseded"), <<>>)
  ELSE LET Q == setStatus(P, "Searching...", "loading")
           rows == getAllSnippetItems(Q.snips) IN
       IF Len(rows) = 0 THEN FilterRender(Q, t, <<>>)
       ELSE Step(Q, [t EXCEPT !.pc = "query", !.rows = rows], <<>>)

\* await ensureMissingEmbeddings(area), then the rest of the try block.
RECURSIVE FilterEnsure(_, _, _)
FilterEnsure(P, t, area) ==
  LET e == ensureMissingEmbeddings(P, area) IN
  IF e.outcome = "await" THEN Step(e.P, [t EXCEPT !.pc = "ensure", !.area = area], e.req)
  ELSE IF e.outcome = "throw" THEN FilterCatch(e.P, t, e.error)
  ELSE IF area = "local" THEN FilterEnsure(P, t, "sync")
  ELSE FilterSearch(P, t)

\* filterSnippets taking the next token as requestId without storing it.
filterSnippetsKeepingToken(P) ==
  IF Trim(P.input) = ""
  THEN Step(DisplayActive([setStatus(P, "", "idle") EXCEPT !.title = AreaTitle(P.active)]),
            Settle([NoTask EXCEPT !.kind = "filter"], "done"), <<>>)
  ELSE LET Q == setStatus(P, "Preparing embeddings...", "loading") IN
       FilterEnsure(Q, [NoTask EXCEPT !.kind = "filter", !.query = Trim(P.input),
                                      !.requestId = Q.token + 1], "local")
\* filterSnippets testing the untrimmed value of the search box.
filterSnippetsUntrimmed(P) ==
  IF P.input = ""
  THEN Step(DisplayActive([setStatus(P, "", "idle") EXCEPT !.title = AreaTitle(P.active)]),
            Settle([NoTask EXCEPT !.kind = "filter"], "done"), <<>>)
  ELSE LET Q == [setStatus(P, "Preparing embeddings...", "loading") EXCEPT !.token = @ + 1] IN
       FilterEnsure(Q, [NoTask EXCEPT !.kind = "filter", !.query = P.input,
                                      !.requestId = Q.token], "local")
\* filterSnippets() from its call, the search box holding P.input.
filterSnippets(P) ==
  IF Trim(P.input) = ""
  THEN Step(DisplayActive([setStatus(P, "", "idle") EXCEPT !.title = AreaTitle(P.active)]),
            Settle([NoTask EXCEPT !.kind = "filter"], "done"), <<>>)
  ELSE LET Q == [setStatus(P, "Preparing embeddings...", "loading") EXCEPT !.token = @ + 1] IN
       FilterEnsure(Q, [NoTask EXCEPT !.kind = "filter", !.query = Trim(P.input),
                                      !.requestId = Q.token], "local")

FilterRankedSkippingMissing(P, t, ok) ==
  IF ~ok THEN FilterCatch(P, t, "Embedding failed.")
  ELSE LET cached == SelectSeq(t.rows, LAMBDA row : P.index[row.snippet.id] # NoVec) IN
       FilterRender(P, t, ScoreRows(cached, P.index, Embed(t.query)))
\* embedQuery returned (ok) or threw; then the loop and the sort of rankSnippets.
FilterRanked(P, t, ok) ==
  IF ~ok THEN FilterCatch(P, t, "Embedding failed.")
  ELSE IF RowsErrorFrom(t.rows, P.index, Embed(t.query), 1) # ""
  THEN FilterCatch(P, t, RowsErrorFrom(t.rows, P.index, Embed(t.query), 1))
  ELSE FilterRender(P, t, ScoreRows(t.rows, P.index, Embed(t.query)))

(***************************************************************************)
(* setActiveArea and updateDisplay.                                        *)
(***************************************************************************)
\* updateDisplay() up to its await of updateStorageInfo.
updateDisplay(P, t) ==
  Step([P EXCEPT !.title = AreaTitle(P.active)], [t EXCEPT !.pc = "info"], <<>>)
\* updateDisplay() after it: the list, the search box, the status.
DisplayUpdated(P, t) ==
  Step(setStatus([DisplayActive(P) EXCEPT !.input = ""], "", "idle"), Settle(t, "done"), <<>>)

\* The catch block of setActiveArea: the status, then the rethrow.
AreaCatch(P, t, message) ==
  Step(setStatus(P, message, "error"), Settle([t EXCEPT !.error = message], "failed"), <<>>)

\* setActiveArea without the increment of searchToken.
setActiveAreaKeepingToken(P, t, area) ==
  LET Q == [P EXCEPT !.active = area, !.title = AreaTitle(area)]
      e == ensureMissingEmbeddings(Q, area) IN
  IF e.outcome = "await" THEN Step(e.P, [t EXCEPT !.pc = "ensure", !.area = area], e.req)
  ELSE IF e.outcome = "throw" THEN AreaCatch(e.P, t, e.error)
  ELSE updateDisplay(Q, t)
\* setActiveArea(area) from its call, inside task t.
setActiveArea(P, t, area) ==
  LET Q == [P EXCEPT !.active = area, !.token = @ + 1, !.title = AreaTitle(area)]
      e == ensureMissingEmbeddings(Q, area) IN
  IF e.outcome = "await" THEN Step(e.P, [t EXCEPT !.pc = "ensure", !.area = area], e.req)
  ELSE IF e.outcome = "throw" THEN AreaCatch(e.P, t, e.error)
  ELSE updateDisplay(Q, t)

(***************************************************************************)
(* The tail of ensureMissingEmbeddings and the return to its caller.       *)
(***************************************************************************)
\* ensureMissingEmbeddings threw `message` into its caller.
EnsureThrew(P, t, message) ==
  IF t.kind = "filter" THEN FilterCatch(P, t, message) ELSE AreaCatch(P, t, message)

\* ensureMissingEmbeddings returned to its caller.
EnsureReturned(P, t) ==
  IF t.kind = "filter"
  THEN (IF t.area = "local" THEN FilterEnsure(P, t, "sync") ELSE FilterSearch(P, t))
  ELSE updateDisplay(P, t)

\* The response to the ensureEmbeddings message arrived: the pass p settled.
EnsureResponded(P, t, p) ==
  IF p.pc = "ok" THEN Step(P, [t EXCEPT !.pc = "reload"], <<>>)
  ELSE EnsureThrew(P, t, p.error)

\* loadEmbeddingsIndex() returned `stored`: the stillMissing check and the status.
IndexReloaded(P, t, stored, missing) ==
  LET Q == [P EXCEPT !.index = stored] IN
  IF MissingFrom(missing, stored) # <<>>
  THEN EnsureThrew(Q, t, "Missing embeddings for snippet(s).")
  ELSE EnsureReturned(setStatus(Q, "", "idle"), t)

(***************************************************************************)
(* deleteSnippet, clearAllSnippets, moveSnippet.                           *)
(***************************************************************************)
Fail(P, t, message) == Step(P, Settle([t EXCEPT !.error = message], "failed"), <<>>)

\* getSnippetIndex(area, id): the error it throws, "" when it returns.
IndexError(P, area, id) ==
  IF id = NoId THEN "Snippet ID is required."
  ELSE IF FindIndex(P.snips[area], id) = 0 THEN "Snippet not found."
  ELSE ""

\* deleteSnippet splicing at the index findIndex returned, -1 included:
\* splice(-1, 1) removes the last item.
deleteSnippetUnchecked(P, area, id) ==
  LET t == [NoTask EXCEPT !.kind = "delete", !.area = area, !.id = id]
      found == FindIndex(P.snips[area], id)
      list == RemoveAt(P.snips[area], IF found = 0 THEN Len(P.snips[area]) ELSE found) IN
  Step([P EXCEPT !.snips[area] = list], [t EXCEPT !.pc = "save", !.payload = list], <<>>)
\* deleteSnippet(area, id) up to its await of saveSnippetsForArea.
deleteSnippet(P, area, id) ==
  LET t == [NoTask EXCEPT !.kind = "delete", !.area = area, !.id = id] IN
  IF IndexError(P, area, id) # "" THEN Fail(P, t, IndexError(P, area, id))
  ELSE LET list == RemoveAt(P.snips[area], FindIndex(P.snips[area], id)) IN
       Step([P EXCEPT !.snips[area] = list], [t EXCEPT !.pc = "save", !.payload = list], <<>>)

\* clearAllSnippets emptying every area.
clearAllSnippetsEverywhere(P) ==
  Step([P EXCEPT !.snips = [a \in Areas |-> <<>>]],
       [NoTask EXCEPT !.kind = "clear", !.area = P.active, !.pc = "save", !.payload = <<>>], <<>>)
\* clearAllSnippets() once confirm() returned true.
clearAllSnippets(P) ==
  Step([P EXCEPT !.snips[P.active] = <<>>],
       [NoTask EXCEPT !.kind = "clear", !.area = P.active, !.pc = "save", !.payload = <<>>], <<>>)

moveSnippetDroppingVector(P, area, id, targetArea) ==
  LET k == FindIndex(P.snips[area], id)
      source == RemoveAt(P.snips[area], k)
      destination == Append(P.snips[targetArea], P.snips[area][k]) IN
  Step([P EXCEPT !.snips[area] = source, !.snips[targetArea] = destination,
                 !.index[id] = NoVec],
       [NoTask EXCEPT !.kind = "move", !.area = area, !.id = id, !.target = targetArea,
                      !.pc = "save", !.payload = source], <<>>)
moveSnippetIntoDuplicate(P, area, id, targetArea) ==
  LET t == [NoTask EXCEPT !.kind = "move", !.area = area, !.id = id, !.target = targetArea] IN
  IF targetArea = area THEN Fail(P, t, "Target storage area must be different.")
  ELSE IF IndexError(P, area, id) # "" THEN Fail(P, t, IndexError(P, area, id))
  ELSE LET k == FindIndex(P.snips[area], id)
           source == RemoveAt(P.snips[area], k)
           destination == Append(P.snips[targetArea], P.snips[area][k]) IN
       Step([P EXCEPT !.snips[area] = source, !.snips[targetArea] = destination],
            [t EXCEPT !.pc = "save", !.payload = source], <<>>)
\* moveSnippet(area, id, targetArea) up to its first await.
moveSnippet(P, area, id, targetArea) ==
  LET t == [NoTask EXCEPT !.kind = "move", !.area = area, !.id = id, !.target = targetArea] IN
  IF targetArea = area THEN Fail(P, t, "Target storage area must be different.")
  ELSE IF IndexError(P, area, id) # "" THEN Fail(P, t, IndexError(P, area, id))
  ELSE IF id \in Ids(P.snips[targetArea])
  THEN Fail(P, t, "Snippet already exists in target storage.")
  ELSE LET k == FindIndex(P.snips[area], id)
           source == RemoveAt(P.snips[area], k)
           destination == Append(P.snips[targetArea], P.snips[area][k]) IN
       Step([P EXCEPT !.snips[area] = source, !.snips[targetArea] = destination],
            [t EXCEPT !.pc = "save", !.payload = source], <<>>)

\* After saveSnippetsForArea in deleteSnippet and clearAllSnippets: the prune,
\* then saveEmbeddingsIndex if it changed the index, else updateDisplay.
AfterSnippetsSavedAlwaysWrites(P, t) ==
  IF PruneError(P.snips) # "" THEN Fail(P, t, PruneError(P.snips))
  ELSE LET Q == [P EXCEPT !.index = pruneEmbeddingsIndex(P.snips, P.index)] IN
       Step(Q, [t EXCEPT !.pc = "saveIndex", !.payload = Q.index], <<>>)
AfterSnippetsSaved(P, t) ==
  IF PruneError(P.snips) # "" THEN Fail(P, t, PruneError(P.snips))
  ELSE LET Q == [P EXCEPT !.index = pruneEmbeddingsIndex(P.snips, P.index)] IN
       IF Q.index # P.index
       THEN Step(Q, [t EXCEPT !.pc = "saveIndex", !.payload = Q.index], <<>>)
       ELSE updateDisplay(Q, [t EXCEPT !.payload = <<>>])

\* saveSnippetsForArea settled, its failure ignored.
SnippetsSavedIgnoringFailure(P, t, ok) ==
  IF t.kind = "move"
  THEN Step(P, [t EXCEPT !.pc = "saveTarget",
                         !.payload = IF t.detached THEN t.dest ELSE P.snips[t.target]], <<>>)
  ELSE AfterSnippetsSaved(P, t)
\* saveSnippetsForArea(area, ...) settled in task t (its first one in moveSnippet).
SnippetsSaved(P, t, ok) ==
  IF ~ok THEN Fail(P, t, "Storage write failed")
  ELSE IF t.kind = "move"
  THEN Step(P, [t EXCEPT !.pc = "saveTarget",
                         !.payload = IF t.detached THEN t.dest ELSE P.snips[t.target]], <<>>)
  ELSE AfterSnippetsSaved(P, t)

\* The second saveSnippetsForArea of moveSnippet settled.
TargetSaved(P, t, ok) ==
  IF ~ok THEN Fail(P, t, "Storage write failed") ELSE updateDisplay(P, [t EXCEPT !.payload = <<>>])

\* saveEmbeddingsIndex() settled: updateDisplay follows in deleteSnippet and
\* clearAllSnippets, setActiveArea(activeArea) in loadAndDisplaySnippets.
IndexSaved(P, t, ok) ==
  IF ~ok THEN Fail(P, t, "Storage write failed")
  ELSE IF t.kind = "load" THEN setActiveArea(P, [t EXCEPT !.payload = <<>>], P.active)
  ELSE updateDisplay(P, [t EXCEPT !.payload = <<>>])

(***************************************************************************)
(* loadAndDisplaySnippets (called by initialize) and ensureSnippetIds.     *)
(***************************************************************************)
\* generateSnippetId in the popup: the n-th id it generates.
PopupIdReused(n) == "i2"
PopupId(n) == IF n = 1 THEN "n1" ELSE "n2"
Generated(snips) == Cardinality({"n1", "n2"} \cap LiveIds(snips))
\* current.map(...): every item without an id gets a generated one.
RECURSIVE BackfillFrom(_, _, _)
BackfillFrom(list, k, n) ==
  IF k > Len(list) THEN <<>>
  ELSE IF list[k].id = NoId
       THEN <<[list[k] EXCEPT !.id = PopupId(n + 1)]>> \o BackfillFrom(list, k + 1, n + 1)
       ELSE <<list[k]>> \o BackfillFrom(list, k + 1, n)

\* After the prune of the load: saveEmbeddingsIndex if it changed the index,
\* else setActiveArea(activeArea).
LoadPruned(P, t) ==
  IF PruneError(P.snips) # "" THEN Fail(P, t, PruneError(P.snips))
  ELSE LET Q == [P EXCEPT !.index = pruneEmbeddingsIndex(P.snips, P.index)] IN
       IF Q.index # P.index
       THEN Step(Q, [t EXCEPT !.pc = "saveIndex", !.payload = Q.index], <<>>)
       ELSE setActiveArea(Q, t, Q.active)

\* ensureSnippetIds(area) and what follows it in loadAndDisplaySnippets, up to
\* the next await.
RECURSIVE LoadEnsureIds(_, _, _)
LoadEnsureIds(P, t, area) ==
  LET next == BackfillFrom(P.snips[area], 1, Generated(P.snips))
      Q == [P EXCEPT !.snips[area] = next] IN
  IF next # P.snips[area]
  THEN Step(Q, [t EXCEPT !.pc = "saveIds", !.area = area, !.payload = next], <<>>)
  ELSE IF area = "local" THEN LoadEnsureIds(Q, t, "sync")
  ELSE Step(Q, [t EXCEPT !.pc = "readIndex"], <<>>)

\* loadAndDisplaySnippets() up to its first await.
loadAndDisplaySnippets(P) == Step(P, [NoTask EXCEPT !.kind = "load", !.pc = "readLocal"], <<>>)
\* loadSnippetsForArea('local') returned.
LocalRead(P, t, stored) == Step([P EXCEPT !.snips["local"] = stored], [t EXCEPT !.pc = "readSync"], <<>>)
\* loadSnippetsForArea('sync') returned; then ensureSnippetIds('local').
SyncRead(P, t, stored) == LoadEnsureIds([P EXCEPT !.snips["sync"] = stored], t, "local")
\* The saveSnippetsForArea of ensureSnippetIds(t.area) settled.
IdsSaved(P, t, ok) ==
  IF ~ok THEN Fail(P, t, "Storage write failed")
  ELSE IF t.area = "local" THEN LoadEnsureIds(P, [t EXCEPT !.payload = <<>>], "sync")
  ELSE Step(P, [t EXCEPT !.pc = "readIndex", !.payload = <<>>], <<>>)
\* loadEmbeddingsIndex() of the load returned; then the prune.
IndexRead(P, t, stored) == LoadPruned([P EXCEPT !.index = stored], t)

\* An area's array is replaced by a new one (clearAllSnippets, the load): a
\* moveSnippet suspended before its second save keeps the old array.
Detach(ts, area, old) ==
  [k \in 1..Len(ts) |->
     IF ts[k].kind = "move" /\ ts[k].pc = "save" /\ ts[k].target = area /\ ~ts[k].detached
     THEN [ts[k] EXCEPT !.dest = old, !.detached = TRUE] ELSE ts[k]]

(***************************************************************************)
(* The offscreen document (offscreen.js).  embedderPromise is "null" until  *)
(* the first getEmbedder call, then "assets" while ensureModelAssets is     *)
(* awaited, "pipeline" while pipeline(...) loads the model, and at last     *)
(* "resolved" or "rejected".  attempts counts the initializations started;  *)
(* a request records in `attempt` the initialization it awaited.            *)
(***************************************************************************)
OffscreenDocument == [embedderPromise |-> "null", reason |-> "", attempts |-> 0, requests |-> <<>>]
\* One embedText message; responses counts the calls of its sendResponse.
NoRequest ==
  [pc |-> "done", text |-> "", attempt |-> 0, ok |-> FALSE, vector |-> NoVec, error |-> "",
   responses |-> 0]
Respond(r, vector) ==
  [r EXCEPT !.pc = "done", !.ok = TRUE, !.vector = vector, !.responses = @ + 1]
RespondError(r, message) ==
  [r EXCEPT !.pc = "done", !.ok = FALSE, !.error = message, !.responses = @ + 1]
EnvUnavailable == "Transformers env is unavailable."
MissingAsset == "Missing local model asset"
PipelineFailed == "pipeline failed"
InFlight(o) == o.embedderPromise \in {"assets", "pipeline"}

\* getEmbedder(): the document after the call; envOk tells whether the checks
\* at the head of the initializer pass.
getEmbedderUnshared(o, envOk) ==
  [o EXCEPT !.embedderPromise = IF envOk THEN "assets" ELSE "rejected",
            !.reason = IF envOk THEN "" ELSE EnvUnavailable, !.attempts = @ + 1]
getEmbedder(o, envOk) ==
  IF o.embedderPromise # "null" THEN o
  ELSE [o EXCEPT !.embedderPromise = IF envOk THEN "assets" ELSE "rejected",
                 !.reason = IF envOk THEN "" ELSE EnvUnavailable, !.attempts = @ + 1]

\* The end of handleEmbedText for request r: the embedder returned an output
\* with vector data ("data") or without ("none"), or it threw ("throw").
Outputs == {"data", "none", "throw"}
Answered(r, output) ==
  IF output = "data" THEN Respond(r, Embed(r.text))
  ELSE IF output = "none" THEN RespondError(r, "Embedding output is missing vector data.")
  ELSE RespondError(r, "Embedding failed.")

\* A request resumed from `await getEmbedder()` on the settled promise.
Resumed(r, promise, reason) ==
  IF promise = "resolved" THEN [r EXCEPT !.pc = "embed"] ELSE RespondError(r, reason)
\* handleEmbedText calling getEmbedder before it validates the text.
handleEmbedTextInitializingFirst(o, text, envOk) ==
  LET r == [NoRequest EXCEPT !.text = text]
      q == getEmbedder(o, envOk)
      w == [r EXCEPT !.pc = "getEmbedder", !.attempt = q.attempts] IN
  IF Trim(text) = "" THEN [q EXCEPT !.requests = Append(@, RespondError(r, "Embedding requires non-empty text."))]
  ELSE [q EXCEPT !.requests = Append(@, IF InFlight(q) THEN w ELSE Resumed(w, q.embedderPromise, q.reason))]
\* handleEmbedText(message) up to its first await that does not settle at once.
handleEmbedText(o, text, envOk) ==
  LET r == [NoRequest EXCEPT !.text = text] IN
  IF Trim(text) = "" THEN [o EXCEPT !.requests = Append(@, RespondError(r, "Embedding requires non-empty text."))]
  ELSE LET q == getEmbedder(o, envOk)
           w == [r EXCEPT !.pc = "getEmbedder", !.attempt = q.attempts] IN
       [q EXCEPT !.requests = Append(@, IF InFlight(q) THEN w ELSE Resumed(w, q.embedderPromise, q.reason))]
\* embedderPromise settles: every request awaiting it resumes.
Settled(o, promise, reason) ==
  [o EXCEPT !.embedderPromise = promise,
            !.reason = reason,
            !.requests = [k \in 1..Len(@) |-> IF @[k].pc = "getEmbedder" THEN Resumed(@[k], promise, reason)
                                              ELSE @[k]]]

(***************************************************************************)
(* background.js: embedText and ensureOffscreenDocument.  hasDocument is   *)
(* what chrome.offscreen.hasDocument() answers; creates counts the calls   *)
(* of chrome.offscreen.createDocument; a call of embedText is at            *)
(*   "hasDocument" awaiting chrome.offscreen.hasDocument()                 *)
(*   "create"      awaiting chrome.offscreen.createDocument(...)           *)
(*   "send"        awaiting the response to its embedText message          *)
(*   "done"        settled, error "" when it resolved                      *)
(***************************************************************************)
NoDocument == [hasDocument |-> FALSE, creates |-> 0, calls |-> <<>>]
SingleDocument == "Only a single offscreen document may be created."
\* embedText(text) up to the await in ensureOffscreenDocument.
embedText == [pc |-> "hasDocument", error |-> ""]
\* ensureOffscreenDocument: hasDocument() answered; createDocument is called
\* unless a document exists.
ensureOffscreenDocument(d, k) ==
  IF d.hasDocument THEN [d EXCEPT !.calls[k].pc = "send"]
  ELSE [d EXCEPT !.calls[k].pc = "create", !.creates = @ + 1]
\* createDocument settled: the browser creates the document, or rejects the
\* call when the extension already has one; embedText then sends its message
\* or rejects.
DocumentCreated(d, k) ==
  IF d.hasDocument THEN [d EXCEPT !.calls[k] = [pc |-> "done", error |-> SingleDocument]]
  ELSE [d EXCEPT !.hasDocument = TRUE, !.calls[k].pc = "send"]

(***************************************************************************)
(* The single-list popup (the popup script with one `snippets` array kept  *)
(* under chrome.storage.sync).  displaySnippets binds the buttons of each  *)
(* row to the array position the row was rendered from; positions count    *)
(* from 1 here.  A call of deleteSnippet is a record:                      *)
(*   pc       "save" awaiting setStorage of the list, "saveIndex" awaiting *)
(*            saveEmbeddingsIndex, "done" settled                          *)
(*   index    its argument                                                 *)
(*   snippet  snippets[index] as the call read it, NoSnippet if absent     *)
(*   clicked  history: the snippet shown in the row that was clicked       *)
(*   payload  the data of the write it awaits                              *)
(***************************************************************************)
NoSnippet == Item(NoId, "")
NoListPopup == [snippets |-> <<>>, embeddingsIndex |-> EmptyIndex, rows |-> <<>>, deletes |-> <<>>]
\* snippets.map((snippet, index) => ({ snippet, index })), as displaySnippets renders it.
ListRows(list) == [k \in 1..Len(list) |-> [snippet |-> list[k], index |-> k]]
\* updateDisplay() of the single-list popup.
updateDisplayList(L) == [L EXCEPT !.rows = ListRows(L.snippets)]
NoDelete ==
  [pc |-> "done", result |-> "", error |-> "", index |-> 0, snippet |-> NoSnippet,
   clicked |-> NoSnippet, payload |-> <<>>]
\* deleteSnippet(index) up to its await of setStorage; d is the new call.
deleteSnippetAt(L, d) ==
  IF d.index > Len(L.snippets)
  THEN [L EXCEPT !.deletes = Append(@, [d EXCEPT !.result = "failed", !.error = "Snippet not found."])]
  ELSE LET list == RemoveAt(L.snippets, d.index) IN
       [L EXCEPT !.snippets = list,
                 !.deletes = Append(@, [d EXCEPT !.pc = "save", !.snippet = L.snippets[d.index],
                                                 !.payload = list])]
\* The setStorage of the list settled in call k: the cache entry of the removed
\* snippet is deleted and saved if there is one, else updateDisplay().
ListSaved(L, k, ok) ==
  LET d == L.deletes[k] IN
  IF ~ok THEN [L EXCEPT !.deletes[k] = [d EXCEPT !.pc = "done", !.result = "failed",
                                                 !.error = "Storage write failed", !.payload = <<>>]]
  ELSE IF d.snippet.id # NoId /\ L.embeddingsIndex[d.snippet.id] # NoVec
  THEN LET index == [L.embeddingsIndex EXCEPT ![d.snippet.id] = NoVec] IN
       [L EXCEPT !.embeddingsIndex = index,
                 !.deletes[k] = [d EXCEPT !.pc = "saveIndex", !.payload = index]]
  ELSE updateDisplayList([L EXCEPT !.deletes[k] = [d EXCEPT !.pc = "done", !.result = "done",
                                                            !.payload = <<>>]])
\* saveEmbeddingsIndex() settled in call k; then updateDisplay().
ListIndexSaved(L, k, ok) ==
  LET d == L.deletes[k] IN
  IF ~ok THEN [L EXCEPT !.deletes[k] = [d EXCEPT !.pc = "done", !.result = "failed",
                                                 !.error = "Storage write failed", !.payload = <<>>]]
  ELSE updateDisplayList([L EXCEPT !.deletes[k] = [d EXCEPT !.pc = "done", !.result = "done",
                                                            !.payload = <<>>]])

(***************************************************************************)
(* Actions.                                                                *)
(***************************************************************************)
SetPopup(P) ==
  /\ snippetsByArea' = P.snips
  /\ activeArea' = P.active
  /\ embeddingsIndex' = P.index
  /\ searchToken' = P.token
  /\ searchInput' = P.input
  /\ status' = P.status
  /\ title' = P.title
  /\ display' = P.display

\* Task j of the task list ts takes the step r; the request it sends, if any,
\* starts an ensureEmbeddings call in the background.
Commit(ts, j, r) ==
  /\ SetPopup(r.P)
  /\ IF r.req = <<>>
     THEN /\ tasks' = [k \in 1..(IF j > Len(ts) THEN j ELSE Len(ts)) |-> IF k = j THEN r.t ELSE ts[k]]
          /\ UNCHANGED passes
     ELSE /\ tasks' = [k \in 1..(IF j > Len(ts) THEN j ELSE Len(ts)) |->
                         IF k = j THEN [r.t EXCEPT !.pass = Len(passes) + 1] ELSE ts[k]]
          /\ passes' = Append(passes, [ensureEmbeddings(r.req) EXCEPT !.owner = j])

NewTask == Len(tasks) + 1
Suspended(j, pc) == j \in 1..Len(tasks) /\ tasks[j].pc = pc

\* The user changes the search box to q: the input event calls filterSnippets.
UserInput(q) ==
  /\ q # searchInput
  /\ Commit(tasks, NewTask, filterSnippets([Popup EXCEPT !.input = q]))
  /\ pruned' = FALSE
  /\ UNCHANGED <<offscreen, cosine, chromeOffscreen, listPopup>>
  /\ UNCHANGED <<storedSnippets, storedIndex, indexWrites, captures>>

\* A click on a tab.
ClickTab(area) ==
  /\ Commit(tasks, NewTask, setActiveArea(Popup, [NoTask EXCEPT !.kind = "tab"], area))
  /\ pruned' = FALSE
  /\ UNCHANGED <<offscreen, cosine, chromeOffscreen, listPopup>>
  /\ UNCHANGED <<storedSnippets, storedIndex, indexWrites, captures>>

\* A click on the Delete button of displayed row k.
ClickDelete(k) ==
  /\ k \in 1..Len(display.rows)
  /\ Commit(tasks, NewTask, deleteSnippet(Popup, display.rows[k].area, display.rows[k].snippet.id))
  /\ pruned' = FALSE
  /\ UNCHANGED <<offscreen, cosine, chromeOffscreen, listPopup>>
  /\ UNCHANGED <<storedSnippets, storedIndex, indexWrites, captures>>

\* A click on the Move button of displayed row k.
ClickMove(k) ==
  /\ k \in 1..Len(display.rows)
  /\ Commit(tasks, NewTask, moveSnippet(Popup, display.rows[k].area, display.rows[k].snippet.id,
                                        OtherArea(display.rows[k].area)))
  /\ pruned' = FALSE
  /\ UNCHANGED <<offscreen, cosine, chromeOffscreen, listPopup>>
  /\ UNCHANGED <<storedSnippets, storedIndex, indexWrites, captures>>

\* A click on Clear, confirmed.
ClickClear ==
  /\ Commit(Detach(tasks, activeArea, snippetsByArea[activeArea]), NewTask, clearAllSnippets(Popup))
  /\ pruned' = FALSE
  /\ UNCHANGED <<offscreen, cosine, chromeOffscreen, listPopup>>
  /\ UNCHANGED <<storedSnippets, storedIndex, indexWrites, captures>>

\* Background pass i moves to p; when that settles it, the response reaches
\* the popup task that awaits it.
PassMoves(i, p) ==
  IF p.pc \in {"ok", "fail"} /\ p.owner # 0
  THEN LET r == EnsureResponded(Popup, tasks[p.owner], p) IN
       /\ SetPopup(r.P)
       /\ tasks' = [tasks EXCEPT ![p.owner] = r.t]
       /\ passes' = [passes EXCEPT ![i] = p]
  ELSE /\ passes' = [passes EXCEPT ![i] = p]
       /\ UNCHANGED <<popupVars, tasks>>

\* background ensureEmbeddings: loadEmbeddingsIndex() returned.
PassIndexLoaded(i) ==
  /\ i \in 1..Len(passes) /\ passes[i].pc = "load"
  /\ PassMoves(i, EnsureLoaded(passes[i], storedIndex, indexWrites))
  /\ pruned' = FALSE
  /\ UNCHANGED <<offscreen, cosine, chromeOffscreen, listPopup>>
  /\ UNCHANGED <<storedSnippets, storedIndex, indexWrites, captures>>

\* background ensureEmbeddings: embedText returned or threw.
PassEmbedReturned(i, ok) ==
  /\ i \in 1..Len(passes) /\ passes[i].pc = "embed"
  /\ PassMoves(i, EnsureEmbedded(passes[i], ok, indexWrites))
  /\ pruned' = FALSE
  /\ UNCHANGED <<offscreen, cosine, chromeOffscreen, listPopup>>
  /\ UNCHANGED <<storedSnippets, storedIndex, indexWrites, captures>>

\* background ensureEmbeddings: the write of the whole map completed or failed.
PassIndexWritten(i, ok) ==
  /\ i \in 1..Len(passes) /\ passes[i].pc = "write"
  /\ storedIndex' = IF ok THEN passes[i].index ELSE storedIndex
  /\ indexWrites' = IF ok THEN indexWrites + 1 ELSE indexWrites
  /\ PassMoves(i, EnsureWritten(passes[i], ok, indexWrites'))
  /\ pruned' = FALSE
  /\ UNCHANGED <<offscreen, cosine, chromeOffscreen, listPopup>>
  /\ UNCHANGED <<storedSnippets, captures>>

\* popup ensureMissingEmbeddings: loadEmbeddingsIndex() returned.
PopupIndexReloaded(j) ==
  /\ Suspended(j, "reload")
  /\ Commit(tasks, j, IndexReloaded(Popup, tasks[j], storedIndex, passes[tasks[j].pass].items))
  /\ pruned' = FALSE
  /\ UNCHANGED <<offscreen, cosine, chromeOffscreen, listPopup>>
  /\ UNCHANGED <<storedSnippets, storedIndex, indexWrites, captures>>

\* popup rankSnippets: embedQuery returned or threw.
QueryReturned(j, ok) ==
  /\ Suspended(j, "query")
  /\ Commit(tasks, j, FilterRanked(Popup, tasks[j], ok))
  /\ pruned' = FALSE
  /\ UNCHANGED <<offscreen, cosine, chromeOffscreen, listPopup>>
  /\ UNCHANGED <<storedSnippets, storedIndex, indexWrites, captures>>

\* popup: the write of an area's snippets completed or failed.
SnippetsWritten(j, ok) ==
  /\ Suspended(j, "save")
  /\ storedSnippets' = IF ok THEN [storedSnippets EXCEPT ![tasks[j].area] = tasks[j].payload]
                       ELSE storedSnippets
  /\ Commit(tasks, j, SnippetsSaved(Popup, tasks[j], ok))
  /\ pruned' = (ok /\ tasks[j].kind # "move" /\ PruneError(snippetsByArea') = "")
  /\ UNCHANGED <<offscreen, cosine, chromeOffscreen, listPopup>>
  /\ UNCHANGED <<storedIndex, indexWrites, captures>>

\* popup moveSnippet: the write of the target area completed or failed.
TargetWritten(j, ok) ==
  /\ Suspended(j, "saveTarget")
  /\ storedSnippets' = IF ok THEN [storedSnippets EXCEPT ![tasks[j].target] = tasks[j].payload]
                       ELSE storedSnippets
  /\ Commit(tasks, j, TargetSaved(Popup, tasks[j], ok))
  /\ pruned' = FALSE
  /\ UNCHANGED <<offscreen, cosine, chromeOffscreen, listPopup>>
  /\ UNCHANGED <<storedIndex, indexWrites, captures>>

\* popup saveEmbeddingsIndex: the write of the map completed or failed.
IndexWritten(j, ok) ==
  /\ Suspended(j, "saveIndex")
  /\ storedIndex' = IF ok THEN tasks[j].payload ELSE storedIndex
  /\ indexWrites' = IF ok THEN indexWrites + 1 ELSE indexWrites
  /\ Commit(tasks, j, IndexSaved(Popup, tasks[j], ok))
  /\ pruned' = FALSE
  /\ UNCHANGED <<offscreen, cosine, chromeOffscreen, listPopup>>
  /\ UNCHANGED <<storedSnippets, captures>>

\* popup updateDisplay: updateStorageInfo returned.
StorageInfoRead(j) ==
  /\ Suspended(j, "info")
  /\ Commit(tasks, j, DisplayUpdated(Popup, tasks[j]))
  /\ pruned' = FALSE
  /\ UNCHANGED <<offscreen, cosine, chromeOffscreen, listPopup>>
  /\ UNCHANGED <<storedSnippets, storedIndex, indexWrites, captures>>

\* popup load: the read of an area's snippets returned.
SnippetsRead(j) ==
  /\ Suspended(j, "readLocal") \/ Suspended(j, "readSync")
  /\ IF tasks[j].pc = "readLocal"
     THEN Commit(Detach(tasks, "local", snippetsByArea["local"]), j,
                 LocalRead(Popup, tasks[j], storedSnippets["local"]))
     ELSE Commit(Detach(tasks, "sync", snippetsByArea["sync"]), j,
                 SyncRead(Popup, tasks[j], storedSnippets["sync"]))
  /\ pruned' = FALSE
  /\ UNCHANGED <<offscreen, cosine, chromeOffscreen, listPopup>>
  /\ UNCHANGED <<storedSnippets, storedIndex, indexWrites, captures>>

\* popup ensureSnippetIds: the write of the backfilled list completed or failed.
IdsWritten(j, ok) ==
  /\ Suspended(j, "saveIds")
  /\ storedSnippets' = IF ok THEN [storedSnippets EXCEPT ![tasks[j].area] = tasks[j].payload]
                       ELSE storedSnippets
  /\ Commit(tasks, j, IdsSaved(Popup, tasks[j], ok))
  /\ pruned' = FALSE
  /\ UNCHANGED <<offscreen, cosine, chromeOffscreen, listPopup>>
  /\ UNCHANGED <<storedIndex, indexWrites, captures>>

\* popup load: loadEmbeddingsIndex() returned; the prune follows.
LoadIndexRead(j) ==
  /\ Suspended(j, "readIndex")
  /\ Commit(tasks, j, IndexRead(Popup, tasks[j], storedIndex))
  /\ pruned' = (PruneError(snippetsByArea') = "")
  /\ UNCHANGED <<offscreen, cosine, chromeOffscreen, listPopup>>
  /\ UNCHANGED <<storedSnippets, storedIndex, indexWrites, captures>>

(***************************************************************************)
(* background.js: handleSaveSnippet, one call of it as a record.           *)
(*   pc  "embed" awaiting embedText, "readSnippets"/"writeSnippets" in     *)
(*       saveSnippet, "readIndex"/"writeIndex" in saveEmbedding, "done"    *)
(***************************************************************************)
CaptureId(n) == IF n = 1 THEN "c1" ELSE "c2"
handleSaveSnippet(n, text) ==
  [pc |-> "embed", id |-> CaptureId(n), text |-> text, payload |-> <<>>, result |-> ""]
CaptureSettle(c, result) == [c EXCEPT !.pc = "done", !.result = result, !.payload = <<>>]
CaptureAt(c, pc) == c \in 1..Len(captures) /\ captures[c].pc = pc

\* The context-menu click on a selection with the given text.
CaptureRequested(text) ==
  /\ Trim(text) # ""
  /\ captures' = Append(captures, handleSaveSnippet(Len(captures) + 1, text))
  /\ pruned' = FALSE
  /\ UNCHANGED <<offscreen, cosine, chromeOffscreen, listPopup>>
  /\ UNCHANGED <<popupVars, tasks, passes, storedSnippets, storedIndex, indexWrites>>

\* embedText returned or threw; then saveSnippet up to its getStorage.
CaptureEmbedded(c, ok) ==
  /\ CaptureAt(c, "embed")
  /\ captures' = [captures EXCEPT ![c] = IF ok THEN [@ EXCEPT !.pc = "readSnippets"]
                                            ELSE CaptureSettle(@, "failed")]
  /\ pruned' = FALSE
  /\ UNCHANGED <<offscreen, cosine, chromeOffscreen, listPopup>>
  /\ UNCHANGED <<popupVars, tasks, passes, storedSnippets, storedIndex, indexWrites>>

\* saveSnippet: getStorage('sync') returned; the push and the setStorage call.
CaptureSnippetsRead(c) ==
  /\ CaptureAt(c, "readSnippets")
  /\ captures' = [captures EXCEPT ![c] =
        [@ EXCEPT !.pc = "writeSnippets",
                  !.payload = Append(storedSnippets["sync"],
                                      Item(captures[c].id, captures[c].text))]]
  /\ pruned' = FALSE
  /\ UNCHANGED <<offscreen, cosine, chromeOffscreen, listPopup>>
  /\ UNCHANGED <<popupVars, tasks, passes, storedSnippets, storedIndex, indexWrites>>

\* saveSnippet: the write completed or failed; then saveEmbedding up to its load.
CaptureSnippetsWritten(c, ok) ==
  /\ CaptureAt(c, "writeSnippets")
  /\ storedSnippets' = IF ok THEN [storedSnippets EXCEPT !["sync"] = captures[c].payload]
                       ELSE storedSnippets
  /\ captures' = [captures EXCEPT ![c] = IF ok THEN [@ EXCEPT !.pc = "readIndex", !.payload = <<>>]
                                            ELSE CaptureSettle(@, "failed")]
  /\ pruned' = FALSE
  /\ UNCHANGED <<offscreen, cosine, chromeOffscreen, listPopup>>
  /\ UNCHANGED <<popupVars, tasks, passes, storedIndex, indexWrites>>

\* saveEmbedding: loadEmbeddingsIndex() returned; the insertion and the setStorage call.
CaptureIndexRead(c) ==
  /\ CaptureAt(c, "readIndex")
  /\ captures' = [captures EXCEPT ![c] =
        [@ EXCEPT !.pc = "writeIndex",
                  !.payload = [storedIndex EXCEPT ![captures[c].id] = Embed(captures[c].text)]]]
  /\ pruned' = FALSE
  /\ UNCHANGED <<offscreen, cosine, chromeOffscreen, listPopup>>
  /\ UNCHANGED <<popupVars, tasks, passes, storedSnippets, storedIndex, indexWrites>>

\* saveEmbedding: the write of the whole map completed or failed.
CaptureIndexWritten(c, ok) ==
  /\ CaptureAt(c, "writeIndex")
  /\ storedIndex' = IF ok THEN captures[c].payload ELSE storedIndex
  /\ indexWrites' = IF ok THEN indexWrites + 1 ELSE indexWrites
  /\ captures' = [captures EXCEPT ![c] = CaptureSettle(@, IF ok THEN "done" ELSE "failed")]
  /\ pruned' = FALSE
  /\ UNCHANGED <<offscreen, cosine, chromeOffscreen, listPopup>>
  /\ UNCHANGED <<popupVars, tasks, passes, storedSnippets>>

(***************************************************************************)
(* Specifications.                                                         *)
(***************************************************************************)
\* The popup once loadAndDisplaySnippets has completed on a storage holding
\* the given lists and the map of the ids in keys.
IndexOf(items, keys) ==
  [i \in AllIds |-> IF i \in keys /\ \E k \in 1..Len(items) : items[k].id = i
                    THEN Embed(items[CHOOSE k \in 1..Len(items) : items[k].id = i].text)
                    ELSE NoVec]
Loaded(local, sync, keys) ==
  /\ snippetsByArea = [a \in Areas |-> IF a = "local" THEN local ELSE sync]
  /\ storedSnippets = [a \in Areas |-> IF a = "local" THEN local ELSE sync]
  /\ embeddingsIndex = IndexOf(local \o sync, keys)
  /\ storedIndex = IndexOf(local \o sync, keys)
  /\ activeArea = "local"
  /\ searchToken = 1
  /\ searchInput = ""
  /\ status = Status("", "idle")
  /\ title = AreaTitle("local")
  /\ display = [rows |-> AreaRows(local, "local"), empty |-> IF local = <<>> THEN EmptyMessage("local") ELSE "", by |-> 0]
  /\ tasks = <<>>
  /\ passes = <<>>
  /\ captures = <<>>
  /\ indexWrites = 0
  /\ pruned = FALSE
  /\ offscreen = OffscreenDocument
  /\ cosine = NoCall
  /\ chromeOffscreen = NoDocument
  /\ listPopup = NoListPopup

Queries == {"", " ", "a", "b"}

Background ==
  \/ \E i \in 1..Len(passes) : PassIndexLoaded(i)
  \/ \E i \in 1..Len(passes), ok \in BOOLEAN : PassEmbedReturned(i, ok)
  \/ \E i \in 1..Len(passes), ok \in BOOLEAN : PassIndexWritten(i, ok)
PopupWrites ==
  \/ \E j \in 1..Len(tasks), ok \in BOOLEAN : SnippetsWritten(j, ok)
  \/ \E j \in 1..Len(tasks), ok \in BOOLEAN : TargetWritten(j, ok)
  \/ \E j \in 1..Len(tasks), ok \in BOOLEAN : IndexWritten(j, ok)
PopupReads ==
  \/ \E j \in 1..Len(tasks) : PopupIndexReloaded(j)
  \/ \E j \in 1..Len(tasks), ok \in BOOLEAN : QueryReturned(j, ok)
  \/ \E j \in 1..Len(tasks) : StorageInfoRead(j)
PopupLoad ==
  \/ \E j \in 1..Len(tasks) : SnippetsRead(j)
  \/ \E j \in 1..Len(tasks), ok \in BOOLEAN : IdsWritten(j, ok)
  \/ \E j \in 1..Len(tasks) : LoadIndexRead(j)
\* What the user can do in the popup, at most `most` operations per behaviour.
UserOps == Cardinality({k \in 1..Len(tasks) : tasks[k].kind # "load"})
User(most) ==
  \/ UserOps < most /\ \E q \in Queries : UserInput(q)
  \/ UserOps < most /\ \E a \in Areas : ClickTab(a)
  \/ UserOps < most /\ \E k \in 1..Len(display.rows) : ClickDelete(k)
  \/ UserOps < most /\ \E k \in 1..Len(display.rows) : ClickMove(k)
  \/ UserOps < most /\ ClickClear

\* Spec: the popup once its load has completed, the user operating it and the
\* background serving its requests; embedder calls and storage writes may fail.
Init ==
  \/ Loaded(<<I1>>, <<I2>>, {"i1"})
  \/ Loaded(<<I1>>, <<I2>>, {"i1", "i2"})
  \/ Loaded(<<I1, I3>>, <<I2>>, {"i1", "i2", "i3"})
  \/ Loaded(<<>>, <<>>, {})
Next ==
  \/ User(MaxOps)
  \/ PopupReads
  \/ PopupWrites
  \/ Background
Spec == Init /\ [][Next]_vars

\* The popup as constructed: the module-level initial values and the empty DOM.
ConstructedPopup ==
  /\ snippetsByArea = [a \in Areas |-> <<>>]
  /\ activeArea = "local"
  /\ embeddingsIndex = EmptyIndex
  /\ searchToken = 0
  /\ searchInput = ""
  /\ status = Status("", "idle")
  /\ title = ""
  /\ display = [rows |-> <<>>, empty |-> "", by |-> 0]

\* SpecLoad: the popup from its opening: initialize() has registered the
\* listeners and awaits loadAndDisplaySnippets.
Stored(local, sync, index) ==
  /\ storedSnippets = [a \in Areas |-> IF a = "local" THEN local ELSE sync]
  /\ storedIndex = index
Orphan(index, id, text) == [index EXCEPT ![id] = Embed(text)]
InitLoad ==
  /\ ConstructedPopup
  /\ tasks = <<loadAndDisplaySnippets(Popup).t>>
  /\ \/ Stored(<<I1>>, <<I2>>, Orphan(IndexOf(<<I1>>, {"i1"}), "i3", "tc"))
     \/ Stored(<<I1>>, <<I2>>, EmptyIndex)
     \/ Stored(<<Item(NoId, "tc")>>, <<I2>>, IndexOf(<<I2>>, {"i2"}))
  /\ indexWrites = 0
  /\ passes = <<>>
  /\ captures = <<>>
  /\ pruned = FALSE
  /\ offscreen = OffscreenDocument
  /\ cosine = NoCall
  /\ chromeOffscreen = NoDocument
  /\ listPopup = NoListPopup
NextLoad ==
  \/ PopupLoad
  \/ User(MaxLoadOps)
  \/ PopupReads
  \/ PopupWrites
  \/ Background
SpecLoad == InitLoad /\ [][NextLoad]_vars

Captures ==
  \/ Len(captures) < MaxCaptures /\ CaptureRequested("tc")
  \/ \E c \in 1..Len(captures), ok \in BOOLEAN : CaptureEmbedded(c, ok)
  \/ \E c \in 1..Len(captures) : CaptureSnippetsRead(c)
  \/ \E c \in 1..Len(captures), ok \in BOOLEAN : CaptureSnippetsWritten(c, ok)
  \/ \E c \in 1..Len(captures) : CaptureIndexRead(c)
  \/ \E c \in 1..Len(captures), ok \in BOOLEAN : CaptureIndexWritten(c, ok)

\* The background alone: ensureEmbeddings messages with arbitrary item lists.
ItemLists == UNION {[1..n -> {I1, I2}] : n \in 0..MaxItems}
PassRequested(items) ==
  /\ passes' = Append(passes, ensureEmbeddings(items))
  /\ pruned' = FALSE
  /\ UNCHANGED <<offscreen, cosine, chromeOffscreen, listPopup>>
  /\ UNCHANGED <<popupVars, tasks, storedSnippets, storedIndex, indexWrites, captures>>
InitEnsure ==
  /\ ConstructedPopup
  /\ tasks = <<>>
  /\ storedSnippets = [a \in Areas |-> <<>>]
  /\ \E keys \in SUBSET {"i1", "i2"} : storedIndex = IndexOf(<<I1, I2>>, keys)
  /\ indexWrites = 0
  /\ passes = <<>>
  /\ captures = <<>>
  /\ pruned = FALSE
  /\ offscreen = OffscreenDocument
  /\ cosine = NoCall
  /\ chromeOffscreen = NoDocument
  /\ listPopup = NoListPopup
NextEnsure ==
  \/ Len(passes) < MaxPasses /\ \E items \in ItemLists : PassRequested(items)
  \/ Background
SpecEnsure == InitEnsure /\ [][NextEnsure]_vars

\* SpecMove: moveSnippet called with arbitrary arguments (a click on a row of
\* a list displayed earlier) on arbitrary stored lists, and run to its end.
\* The same id may sit in both areas: the two lists are separate storage keys.
StoredLists ==
  {l \in UNION {[1..n -> {I1, I2, I3}] : n \in 0..MaxListLen} :
     \A i \in 1..Len(l), j \in 1..Len(l) : l[i] = l[j] => i = j}
CallMove(area, id, targetArea) ==
  /\ Len(tasks) < MaxCalls
  /\ Commit(tasks, NewTask, moveSnippet(Popup, area, id, targetArea))
  /\ pruned' = FALSE
  /\ UNCHANGED <<offscreen, cosine, chromeOffscreen, listPopup>>
  /\ UNCHANGED <<storedSnippets, storedIndex, indexWrites, captures>>
InitMove ==
  \E local \in StoredLists, sync \in StoredLists :
     Loaded(local, sync, Ids(local) \cup Ids(sync))
NextMove ==
  \/ \E area \in Areas, id \in {"i1", "i2", "i3", NoId}, targetArea \in Areas :
        CallMove(area, id, targetArea)
  \/ \E j \in 1..Len(tasks), ok \in BOOLEAN : SnippetsWritten(j, ok)
  \/ \E j \in 1..Len(tasks), ok \in BOOLEAN : TargetWritten(j, ok)
  \/ \E j \in 1..Len(tasks) : StorageInfoRead(j)
SpecMove == InitMove /\ [][NextMove]_vars

\* SpecOffscreen: the offscreen document alone, embedText messages arriving
\* from the background at any time.
programVars ==
  <<popupVars, tasks, storedSnippets, storedIndex, indexWrites, passes, captures, pruned, cosine,
    chromeOffscreen, listPopup>>
EmbedTextReceived(text, envOk) ==
  /\ Len(offscreen.requests) < MaxRequests
  /\ offscreen' = handleEmbedText(offscreen, text, envOk)
  /\ UNCHANGED programVars
\* ensureModelAssets() settled: pipeline(...) is called, or the initializer throws.
AssetsChecked(ok) ==
  /\ offscreen.embedderPromise = "assets"
  /\ offscreen' = IF ok THEN [offscreen EXCEPT !.embedderPromise = "pipeline"]
                  ELSE Settled(offscreen, "rejected", MissingAsset)
  /\ UNCHANGED programVars
\* pipeline(...) settled.
PipelineLoaded(ok) ==
  /\ offscreen.embedderPromise = "pipeline"
  /\ offscreen' = IF ok THEN Settled(offscreen, "resolved", "")
                  ELSE Settled(offscreen, "rejected", PipelineFailed)
  /\ UNCHANGED programVars
\* embedder(text, options) settled for request k; the response is sent.
Embedded(k, output) ==
  /\ k \in 1..Len(offscreen.requests)
  /\ offscreen.requests[k].pc = "embed"
  /\ offscreen' = [offscreen EXCEPT !.requests[k] = Answered(@, output)]
  /\ UNCHANGED programVars
InitOffscreen == Loaded(<<>>, <<>>, {})
NextOffscreen ==
  \/ \E text \in {"", " ", "ta", "tb"}, envOk \in BOOLEAN : EmbedTextReceived(text, envOk)
  \/ \E ok \in BOOLEAN : AssetsChecked(ok)
  \/ \E ok \in BOOLEAN : PipelineLoaded(ok)
  \/ \E k \in 1..Len(offscreen.requests), output \in Outputs : Embedded(k, output)
SpecOffscreen == InitOffscreen /\ [][NextOffscreen]_vars

\* SpecCapture: the background alone, saving selections from the context menu
\* while it serves ensureEmbeddings requests; storage holds one synced item.
\* A request may name an item whose text is blank.
RequestedLists == {<<I1>>, <<I2>>, <<I1, I2>>, <<I1, Item("i3", " ")>>}
InitCapture ==
  /\ ConstructedPopup
  /\ tasks = <<>>
  /\ \E sync \in {<<>>, <<I2>>}, keys \in SUBSET {"i2"} :
        Stored(<<>>, sync, IndexOf(sync, keys))
  /\ indexWrites = 0
  /\ passes = <<>>
  /\ captures = <<>>
  /\ pruned = FALSE
  /\ offscreen = OffscreenDocument
  /\ cosine = NoCall
  /\ chromeOffscreen = NoDocument
  /\ listPopup = NoListPopup
NextCapture ==
  \/ Captures
  \/ Len(passes) < MaxCalls /\ \E items \in RequestedLists : PassRequested(items)
  \/ Background
SpecCapture == InitCapture /\ [][NextCapture]_vars

\* SpecShared: the popup, loaded, and the background saving a selection from
\* the context menu share chrome.storage: the user deletes, moves or clears in
\* the popup while handleSaveSnippet runs, in any interleaving.
InitShared ==
  \/ Loaded(<<I1>>, <<I2>>, {"i1", "i2"})
  \/ Loaded(<<I1>>, <<>>, {"i1"})
  \/ Loaded(<<I1, I3>>, <<I2>>, {"i1", "i2", "i3"})
NextShared ==
  \/ Captures
  \/ UserOps < MaxCalls /\ \E k \in 1..Len(display.rows) : ClickDelete(k)
  \/ UserOps < MaxCalls /\ \E k \in 1..Len(display.rows) : ClickMove(k)
  \/ UserOps < MaxCalls /\ ClickClear
  \/ PopupWrites
  \/ \E j \in 1..Len(tasks) : StorageInfoRead(j)
SpecShared == InitShared /\ [][NextShared]_vars

\* SpecHang: a search runs, its calls returning, until the user issues the
\* next one while it awaits an embedder call (embedText in its ensureEmbeddings
\* request, or embedQuery); that call then never returns.  The continuations
\* of the search issued last are scheduled fairly.
InEmbedderCall(t) ==
  \/ t.pc = "query"
  \/ t.pc = "ensure" /\ passes[t.pass].pc = "embed"
Latest(j) == j = Len(tasks)
OwnedByLatest(i) == Latest(passes[i].owner)
SearchAgain(q) ==
  /\ Len(tasks) < MaxOps
  /\ \A k \in 1..Len(tasks) : InEmbedderCall(tasks[k])
  /\ UserInput(q)
LatestSteps ==
  \/ \E i \in 1..Len(passes) : OwnedByLatest(i) /\ PassIndexLoaded(i)
  \/ \E i \in 1..Len(passes) : OwnedByLatest(i) /\ PassEmbedReturned(i, TRUE)
  \/ \E i \in 1..Len(passes) : OwnedByLatest(i) /\ PassIndexWritten(i, TRUE)
  \/ \E j \in 1..Len(tasks) : Latest(j) /\ PopupIndexReloaded(j)
  \/ \E j \in 1..Len(tasks) : Latest(j) /\ QueryReturned(j, TRUE)
InitHang ==
  \E local \in {<<I1>>, <<I1, I3>>}, keys \in SUBSET {"i1", "i2", "i3"} :
     Loaded(local, <<I2>>, keys)
NextHang ==
  \/ \E q \in {"a", "b"} : SearchAgain(q)
  \/ LatestSteps
SpecHang == InitHang /\ [][NextHang]_vars /\ WF_vars(LatestSteps)

\* SpecCosine: getCosineSimilarity called once on arbitrary vectors.
Components == {0, 1, 2, 3, NonFinite}
Vectors == UNION {[1..n -> Components] : n \in 0..MaxDim}
CosineReturned ==
  /\ cosine.pc = "called"
  /\ cosine' = Compared(cosine)
  /\ UNCHANGED <<popupVars, tasks, storedSnippets, storedIndex, indexWrites, passes, captures,
                 pruned, offscreen, chromeOffscreen, listPopup>>
InitCosine ==
  /\ ConstructedPopup
  /\ tasks = <<>>
  /\ Stored(<<>>, <<>>, EmptyIndex)
  /\ indexWrites = 0
  /\ passes = <<>>
  /\ captures = <<>>
  /\ pruned = FALSE
  /\ offscreen = OffscreenDocument
  /\ chromeOffscreen = NoDocument
  /\ listPopup = NoListPopup
  /\ \E a \in Vectors, b \in Vectors : cosine = [NoCall EXCEPT !.pc = "called", !.a = a, !.b = b]
NextCosine == CosineReturned
SpecCosine == InitCosine /\ [][NextCosine]_vars

\* SpecDocument: the background's embedText calls (from captures, embedQuery
\* and ensureEmbeddings messages) arriving at any time, with or without an
\* offscreen document left by an earlier run of the service worker.
EmbedTextCalled ==
  /\ Len(chromeOffscreen.calls) < MaxRequests
  /\ chromeOffscreen' = [chromeOffscreen EXCEPT !.calls = Append(@, embedText)]
  /\ UNCHANGED <<popupVars, tasks, storedSnippets, storedIndex, indexWrites, passes, captures,
                 pruned, offscreen, cosine, listPopup>>
EmbedTextAt(k, pc) == k \in 1..Len(chromeOffscreen.calls) /\ chromeOffscreen.calls[k].pc = pc
\* chrome.offscreen.hasDocument() answered call k.
HasDocumentAnswered(k) ==
  /\ EmbedTextAt(k, "hasDocument")
  /\ chromeOffscreen' = ensureOffscreenDocument(chromeOffscreen, k)
  /\ UNCHANGED <<popupVars, tasks, storedSnippets, storedIndex, indexWrites, passes, captures,
                 pruned, offscreen, cosine, listPopup>>
\* chrome.offscreen.createDocument(...) of call k settled.
CreateDocumentSettled(k) ==
  /\ EmbedTextAt(k, "create")
  /\ chromeOffscreen' = DocumentCreated(chromeOffscreen, k)
  /\ UNCHANGED <<popupVars, tasks, storedSnippets, storedIndex, indexWrites, passes, captures,
                 pruned, offscreen, cosine, listPopup>>
\* The response to the embedText message of call k arrived.
EmbedTextAnswered(k, ok) ==
  /\ EmbedTextAt(k, "send")
  /\ chromeOffscreen' = [chromeOffscreen EXCEPT
        !.calls[k] = [pc |-> "done", error |-> IF ok THEN "" ELSE "Embedding failed."]]
  /\ UNCHANGED <<popupVars, tasks, storedSnippets, storedIndex, indexWrites, passes, captures,
                 pruned, offscreen, cosine, listPopup>>
InitDocument ==
  /\ ConstructedPopup
  /\ tasks = <<>>
  /\ Stored(<<>>, <<>>, EmptyIndex)
  /\ indexWrites = 0
  /\ passes = <<>>
  /\ captures = <<>>
  /\ pruned = FALSE
  /\ offscreen = OffscreenDocument
  /\ cosine = NoCall
  /\ listPopup = NoListPopup
  /\ \E exists \in BOOLEAN : chromeOffscreen = [NoDocument EXCEPT !.hasDocument = exists]
NextDocument ==
  \/ EmbedTextCalled
  \/ \E k \in 1..Len(chromeOffscreen.calls) : HasDocumentAnswered(k)
  \/ \E k \in 1..Len(chromeOffscreen.calls) : CreateDocumentSettled(k)
  \/ \E k \in 1..Len(chromeOffscreen.calls), ok \in BOOLEAN : EmbedTextAnswered(k, ok)
SpecDocument == InitDocument /\ [][NextDocument]_vars

\* SpecList: the single-list popup once loadAndDisplaySnippets has rendered
\* the stored list; the user clicks Delete on rendered rows, the writes
\* completing or failing in any order.
ClickDeleteRow(r) ==
  /\ r \in 1..Len(listPopup.rows)
  /\ Len(listPopup.deletes) < MaxOps
  /\ listPopup' = deleteSnippetAt(listPopup, [NoDelete EXCEPT !.index = listPopup.rows[r].index,
                                                             !.clicked = listPopup.rows[r].snippet])
  /\ UNCHANGED <<popupVars, tasks, storedSnippets, storedIndex, indexWrites, passes, captures,
                 pruned, offscreen, cosine, chromeOffscreen>>
DeleteAt(k, pc) == k \in 1..Len(listPopup.deletes) /\ listPopup.deletes[k].pc = pc
\* deleteSnippet: the write of the list completed or failed.
ListWritten(k, ok) ==
  /\ DeleteAt(k, "save")
  /\ storedSnippets' = IF ok THEN [storedSnippets EXCEPT !["sync"] = listPopup.deletes[k].payload]
                       ELSE storedSnippets
  /\ listPopup' = ListSaved(listPopup, k, ok)
  /\ UNCHANGED <<popupVars, tasks, storedIndex, indexWrites, passes, captures,
                 pruned, offscreen, cosine, chromeOffscreen>>
\* deleteSnippet: the write of the cache completed or failed.
ListIndexWritten(k, ok) ==
  /\ DeleteAt(k, "saveIndex")
  /\ storedIndex' = IF ok THEN listPopup.deletes[k].payload ELSE storedIndex
  /\ indexWrites' = IF ok THEN indexWrites + 1 ELSE indexWrites
  /\ listPopup' = ListIndexSaved(listPopup, k, ok)
  /\ UNCHANGED <<popupVars, tasks, storedSnippets, passes, captures,
                 pruned, offscreen, cosine, chromeOffscreen>>
InitList ==
  /\ ConstructedPopup
  /\ tasks = <<>>
  /\ indexWrites = 0
  /\ passes = <<>>
  /\ captures = <<>>
  /\ pruned = FALSE
  /\ offscreen = OffscreenDocument
  /\ cosine = NoCall
  /\ chromeOffscreen = NoDocument
  /\ \E list \in StoredLists, keys \in {{}, {"i1", "i2", "i3"}} :
        /\ Stored(<<>>, list, IndexOf(list, keys))
        /\ listPopup = [NoListPopup EXCEPT !.snippets = list,
                                           !.embeddingsIndex = IndexOf(list, keys),
                                           !.rows = ListRows(list)]
NextList ==
  \/ \E r \in 1..Len(listPopup.rows) : ClickDeleteRow(r)
  \/ \E k \in 1..Len(listPopup.deletes), ok \in BOOLEAN : ListWritten(k, ok)
  \/ \E k \in 1..Len(listPopup.deletes), ok \in BOOLEAN : ListIndexWritten(k, ok)
SpecList == InitList /\ [][NextList]_vars

\* SpecRank: searches over arbitrary stored lists whose items all have their
\* vectors, each run to its end; the query "ab" scores "ta" and "tb" equally.
RankQueries == {"a", "b", "ab"}
Search(q) ==
  /\ Len(tasks) < MaxCalls
  /\ UserInput(q)
InitRank ==
  \E local \in StoredLists, sync \in StoredLists :
     /\ Ids(local) \cap Ids(sync) = {}
     /\ Loaded(local, sync, Ids(local) \cup Ids(sync))
NextRank ==
  \/ \E q \in RankQueries : Search(q)
  \/ \E j \in 1..Len(tasks), ok \in BOOLEAN : QueryReturned(j, ok)
SpecRank == InitRank /\ [][NextRank]_vars

(***************************************************************************)
(* Properties.                                                             *)
(***************************************************************************)
IsSearch(t) == t.kind = "filter" /\ t.requestId # 0
IsEmptyFilter(t) == t.kind = "filter" /\ t.requestId = 0
Running(t) == t.result = ""
AllSettled == \A k \in 1..Len(tasks) : ~Running(tasks[k])
\* A search in flight whose token is no longer the newest one.
Stale(t) == IsSearch(t) /\ Running(t) /\ t.requestId # searchToken
LastTask == tasks[Len(tasks)]
\* The ranking of the current items for the query, as rankSnippets computes it.
RankingFor(query) == ScoreRows(getAllSnippetItems(snippetsByArea), embeddingsIndex, Embed(query))

\* C1 (stale-query suppression): a search that is still in flight when a newer
\* token is issued never renders its ranking, whatever the order in which the
\* responses arrive; and when overlapping searches have all finished and the
\* one issued last succeeded, the list displayed is the ranking of its query.
C1_StaleNeverRenders ==
  \A k \in 1..Len(tasks) :
     Stale(tasks[k]) => (display' = display \/ display'.by # tasks[k].requestId)
C1_NewestWins ==
  (/\ Len(tasks) >= 2
   /\ \A k \in 1..Len(tasks) : IsSearch(tasks[k])
   /\ AllSettled
   /\ LastTask.result = "done")
  => /\ display.by = LastTask.requestId
     /\ display.rows = RankingFor(LastTask.query)
C1_StaleQuerySuppression == [][C1_StaleNeverRenders]_vars /\ []C1_NewestWins
\* Two searches overlapped, the older one finished last and was discarded, and
\* the ranking of the newer one is on display.
C1_Witness ==
  /\ Len(tasks) = 2
  /\ IsSearch(tasks[1]) /\ IsSearch(tasks[2])
  /\ tasks[1].result = "superseded" /\ tasks[1].pass # 0
  /\ tasks[2].result = "done"
  /\ display.by = tasks[2].requestId /\ Len(display.rows) = 2

\* C2 (emptying the query supersedes the search in flight), as claimed: once
\* the last thing the user did is empty the search box, the unranked list stays
\* and no search reports a failure in the status line.
C2_EmptiedQuerySupersedes ==
  (/\ Len(tasks) >= 2
   /\ \A k \in 1..Len(tasks) : tasks[k].kind = "filter"
   /\ IsEmptyFilter(LastTask))
  => /\ display.by = 0
     /\ status.state # "error"

\* C3 (a superseded search changes nothing observable), as claimed: a step of
\* a search whose token is stale leaves the list, the title and the status.
C3_StaleStepSilent ==
  \A k \in 1..Len(tasks) :
     (Stale(tasks[k]) /\ tasks'[k] # tasks[k])
       => (display' = display /\ title' = title /\ status' = status)
C3_SupersededChangesNothing == [][C3_StaleStepSilent]_vars

\* C4 (MissingEmbedding unreachable once ensure preceded rank), as claimed: no
\* search whose ensureMissingEmbeddings succeeded for both areas reports
\* getSnippetVector's missing-embedding error from its ranking step.
MissingEmbedding == "Missing embedding for snippet"
C4_RankNeverMissesEmbedding ==
  \A k \in 1..Len(tasks) :
     IsSearch(tasks[k]) =>
        ~(/\ tasks[k].result = "failed"
          /\ tasks[k].error = MissingEmbedding
          /\ status = Status(MissingEmbedding, "error"))

\* C5 (cache-item consistency), as claimed: right after a prune the ids of the
\* in-memory cache are exactly the ids of the items of the two areas.
C5_PrunedCacheIsUnion == pruned => Keys(embeddingsIndex) = LiveIds(snippetsByArea)
\* C5, amended: right after a prune every id of the in-memory cache is the id
\* of an item of some area; an item may still lack its vector.
C5_PrunedCacheWithinItems == pruned => Keys(embeddingsIndex) \subseteq LiveIds(snippetsByArea)
\* The prune removed a vector (its result awaits saveEmbeddingsIndex), kept
\* another, and an item is left without one.
C5_Witness ==
  /\ pruned
  /\ \E k \in 1..Len(tasks) :
        /\ tasks[k].pc = "saveIndex"
        /\ Keys(tasks[k].payload) = Keys(embeddingsIndex)
  /\ Keys(embeddingsIndex) # {}
  /\ Keys(storedIndex) \ Keys(embeddingsIndex) # {}
  /\ LiveIds(snippetsByArea) \ Keys(embeddingsIndex) # {}

\* C6 (no orphans at checkpoints), as claimed: at the step that completes
\* loadAndDisplaySnippets, deleteSnippet or clearAllSnippets, no other of these
\* three being under way and no operation having failed, every id of the in-memory cache and every id of the
\* persisted cache is the id of an item that exists in some area, in memory or
\* in storage.
Checkpoints == {"load", "delete", "clear"}
ExistingIds == LiveIds(snippetsByArea) \cup LiveIds(storedSnippets)
C6_CompletionLeavesNoOrphan ==
  \A k \in 1..Len(tasks) :
     (/\ tasks[k].kind \in Checkpoints
      /\ Running(tasks[k])
      /\ tasks'[k].result = "done"
      /\ \A m \in 1..Len(tasks) :
            m # k => /\ tasks[m].result # "failed"
                     /\ tasks[m].kind \in Checkpoints => ~Running(tasks[m]))
     => /\ Keys(embeddingsIndex') \subseteq ExistingIds'
        /\ Keys(storedIndex') \subseteq ExistingIds'
C6_NoOrphansAtCheckpoints == [][C6_CompletionLeavesNoOrphan]_vars

Count(seq, x) == Cardinality({k \in 1..Len(seq) : seq[k] = x})

\* C7 (ensureEmbeddings fills each missing id once): a call never calls the
\* embedder twice for an id nor for an id its loaded cache holds; when it has
\* returned, it has called the embedder exactly once for every supplied id the
\* cache lacked, `updated` is the number of vectors it inserted, and at its
\* return every supplied id has a vector in the persisted cache.
C7_CallsOnlyMissing ==
  \A i \in 1..Len(passes) :
     LET p == passes[i] IN
     /\ \A k \in 1..Len(p.calls) : Count(p.calls, p.calls[k]) = 1 /\ p.loaded[p.calls[k]] = NoVec
     /\ p.pc = "ok" =>
          /\ \A id \in Ids(p.items) :
                Count(p.calls, id) = IF p.loaded[id] = NoVec THEN 1 ELSE 0
          /\ p.updated = Cardinality(Keys(p.index) \ Keys(p.loaded))
          /\ p.updated = Len(p.calls)
C7_PersistedAtReturn ==
  \A i \in 1..Len(passes) :
     (passes[i].pc # "ok" /\ passes'[i].pc = "ok") => Ids(passes[i].items) \subseteq Keys(storedIndex')
C7_EnsureOncePerMissingId == []C7_CallsOnlyMissing /\ [][C7_PersistedAtReturn]_vars
\* A call returned whose list names the same missing id twice: one embedder call.
C7_Witness ==
  \E i \in 1..Len(passes) :
     LET p == passes[i] IN
     /\ p.pc = "ok" /\ Len(p.items) = 2 /\ p.items[1].id = p.items[2].id
     /\ p.calls = <<p.items[1].id>> /\ p.updated = 1
     /\ storedIndex[p.items[1].id] # NoVec

\* C8 (ensureEmbeddings is idempotent): a call with the item list of a call
\* that returned, loading the cache as that call left it, embeds nothing,
\* reports zero updates, writes nothing and leaves its map as loaded.
C8_EnsureIdempotent ==
  \A i \in 1..Len(passes), j \in 1..Len(passes) :
     LET p1 == passes[i]
         p2 == passes[j] IN
     (/\ i < j /\ p1.pc = "ok" /\ p2.items = p1.items
      /\ p2.pc \notin {"none", "load"} /\ p2.loadedAt = p1.returnedAt)
     => /\ p2.pc = "ok"
        /\ p2.calls = <<>>
        /\ p2.updated = 0
        /\ p2.index = p2.loaded
        /\ p2.loaded = (IF p1.updated > 0 THEN p1.index ELSE p1.loaded)
        /\ p2.returnedAt = p2.loadedAt
\* The first call inserted a vector and wrote; the second returned on the same cache.
C8_Witness ==
  /\ Len(passes) >= 2
  /\ passes[1].pc = "ok" /\ passes[1].updated > 0
  /\ passes[2].pc = "ok" /\ passes[2].items = passes[1].items
  /\ passes[2].loadedAt = passes[1].returnedAt
  /\ indexWrites = 1

\* C9 (no two embedder calls for one id in flight), as claimed.
EmbeddingInFlight(p, id) == p.pc = "embed" /\ p.items[p.pos].id = id
C9_NoConcurrentEmbedOfSameId ==
  \A i \in 1..Len(passes), j \in 1..Len(passes), id \in AllIds :
     (EmbeddingInFlight(passes[i], id) /\ EmbeddingInFlight(passes[j], id)) => i = j

\* C10 (moveSnippet is atomic in memory and in storage), as claimed: when a
\* moveSnippet that was the only operation has returned or failed, the item is
\* in exactly one area of the in-memory lists and in exactly one area of the
\* persisted lists.
AreasHolding(lists, id) == {a \in Areas : id \in Ids(lists[a])}
C10_MoveAtomic ==
  (/\ Len(tasks) = 1
   /\ tasks[1].kind = "move"
   /\ ~Running(tasks[1]))
  => /\ Cardinality(AreasHolding(snippetsByArea, tasks[1].id)) = 1
     /\ Cardinality(AreasHolding(storedSnippets, tasks[1].id)) = 1

\* C11 (move preserves the embedding): no step of a moveSnippet, from the click
\* to its return or failure, changes an entry of the in-memory cache or of the
\* persisted cache, and none sends an ensureEmbeddings or embedQuery request.
MoveSteps(k) ==
  /\ k \in 1..Len(tasks')
  /\ tasks'[k].kind = "move"
  /\ (k > Len(tasks) \/ tasks'[k].pc # tasks[k].pc)
C11_MoveStepKeepsCache ==
  (\E k \in 1..Len(tasks') : MoveSteps(k))
  => /\ embeddingsIndex' = embeddingsIndex
     /\ storedIndex' = storedIndex
     /\ passes' = passes
     /\ \A k \in 1..Len(tasks') : MoveSteps(k) => tasks'[k].pc \notin {"query", "ensure", "reload"}
C11_MovePreservesEmbedding == [][C11_MoveStepKeepsCache]_vars
\* A move returned: the item sits in the target area, in memory and in storage,
\* and its vector is in the cache, in memory and in storage.
C11_Witness ==
  \E k \in 1..Len(tasks) :
     LET t == tasks[k] IN
     /\ t.kind = "move" /\ t.result = "done"
     /\ t.id \in Ids(snippetsByArea[t.target]) /\ t.id \in Ids(storedSnippets[t.target])
     /\ embeddingsIndex[t.id] # NoVec /\ storedIndex[t.id] # NoVec

\* C12 (moveSnippet's NotFound and DuplicateInTarget): a moveSnippet called with
\* an id absent from the source area fails with the not-found error, one called
\* with an id that both areas hold fails with the duplicate-in-target error,
\* one whose target is its source fails; each fails at the call, leaving the
\* two lists, the cache and storage as they were.
NotFound == "Snippet not found."
DuplicateInTarget == "Snippet already exists in target storage."
SameArea == "Target storage area must be different."
C12_CallRefused ==
  (Len(tasks') = Len(tasks) + 1 /\ tasks'[Len(tasks')].kind = "move")
  => LET t == tasks'[Len(tasks')]
         source == Ids(snippetsByArea[t.area])
         target == Ids(snippetsByArea[t.target])
         refused == t.area = t.target \/ t.id \notin source \/ t.id \in target IN
     /\ refused => /\ t.result = "failed"
                   /\ UNCHANGED <<snippetsByArea, embeddingsIndex, storedSnippets, storedIndex>>
     /\ ~refused => t.result = ""
     /\ (t.area # t.target /\ t.id # NoId /\ t.id \notin source) => t.error = NotFound
     /\ (t.area # t.target /\ t.id \in source /\ t.id \in target) => t.error = DuplicateInTarget
     /\ t.area = t.target => t.error = SameArea
C12_MoveErrorsChangeNothing == [][C12_CallRefused]_vars
\* A move refused as a duplicate: the item is still in both lists.
C12_Witness ==
  /\ Len(tasks) = 1
  /\ tasks[1].kind = "move" /\ tasks[1].result = "failed" /\ tasks[1].error = DuplicateInTarget
  /\ tasks[1].id \in Ids(snippetsByArea["local"]) \cap Ids(snippetsByArea["sync"])
  /\ snippetsByArea = storedSnippets

\* C13 (an item belongs to one area at a time): in every in-memory state no id
\* is held by two items, be it in the two lists or in one of them.
MemoryItems == snippetsByArea["local"] \o snippetsByArea["sync"]
C13_OneAreaPerItem ==
  \A i \in 1..Len(MemoryItems), j \in 1..Len(MemoryItems) :
     (MemoryItems[i].id = MemoryItems[j].id /\ MemoryItems[i].id # NoId) => i = j
\* The load backfilled an id and a move of that item to the other area returned.
C13_Witness ==
  /\ \E k \in 1..Len(tasks) : tasks[k].kind = "load" /\ tasks[k].result = "done"
  /\ \E k \in 1..Len(tasks) : tasks[k].kind = "move" /\ tasks[k].result = "done" /\ tasks[k].id = "n1"
  /\ Ids(snippetsByArea["sync"]) = {"i2", "n1"}
  /\ snippetsByArea["local"] = <<>>

\* C14 (model initialization is shared): an embed request that arrives while
\* an initialization is in flight awaits that attempt; no step starts an
\* attempt while one is in flight or after one has succeeded.
C14_NoSecondAttempt ==
  /\ (InFlight(offscreen) \/ offscreen.embedderPromise = "resolved")
       => offscreen'.attempts = offscreen.attempts
  /\ (InFlight(offscreen) /\ Len(offscreen'.requests) > Len(offscreen.requests))
       => LET r == offscreen'.requests[Len(offscreen'.requests)] IN
          r.pc = "done" \/ (r.pc = "getEmbedder" /\ r.attempt = offscreen.attempts)
C14_AwaitersShareAttempt ==
  \A k \in 1..Len(offscreen.requests) :
     offscreen.requests[k].pc = "getEmbedder" => offscreen.requests[k].attempt = offscreen.attempts
C14_InitializationShared == [][C14_NoSecondAttempt]_vars /\ []C14_AwaitersShareAttempt
\* Three requests await the single attempt that the first of them started.
C14_Witness ==
  /\ offscreen.embedderPromise = "pipeline"
  /\ offscreen.attempts = 1
  /\ Len(offscreen.requests) = 3
  /\ \A k \in 1..3 : offscreen.requests[k].pc = "getEmbedder" /\ offscreen.requests[k].attempt = 1

\* C15 (a failed initialization reaches its awaiters and is not reused), as
\* claimed: when the attempt fails every request awaiting it is answered with
\* the failure, and an embed request received after the failure (of the asset
\* check or of the model load) starts a new attempt.
C15_FailureDelivered ==
  (InFlight(offscreen) /\ offscreen'.embedderPromise = "rejected")
  => \A k \in 1..Len(offscreen.requests) :
        offscreen.requests[k].pc = "getEmbedder"
          => /\ offscreen'.requests[k].pc = "done"
             /\ ~offscreen'.requests[k].ok
             /\ offscreen'.requests[k].error = offscreen'.reason
C15_FreshAttemptAfterFailure ==
  (/\ offscreen.embedderPromise = "rejected"
   /\ offscreen.reason \in {MissingAsset, PipelineFailed}
   /\ Len(offscreen'.requests) > Len(offscreen.requests)
   /\ Trim(offscreen'.requests[Len(offscreen'.requests)].text) # "")
  => offscreen'.attempts = offscreen.attempts + 1
C15_FailedInitializationRetried == [][C15_FailureDelivered /\ C15_FreshAttemptAfterFailure]_vars

\* C16 (a failed search shows its failure and keeps the list): no step of a
\* search that fails, from its issue to its failure, changes the displayed
\* list, and the step at which it fails as the current search puts its error
\* in the status line.
SearchSteps(k) ==
  /\ k \in 1..Len(tasks')
  /\ IsSearch(tasks'[k])
  /\ (k > Len(tasks) \/ tasks'[k] # tasks[k])
C16_FailingStepKeepsList ==
  \A k \in 1..Len(tasks') :
     SearchSteps(k) =>
        /\ tasks'[k].result # "done" => display' = display
        /\ tasks'[k].result = "failed" =>
              /\ tasks'[k].error # ""
              /\ status' = Status(tasks'[k].error, "error")
C16_FailedSearchKeepsList == [][C16_FailingStepKeepsList]_vars
\* A ranking is on display and the search issued after it failed: the status
\* line shows the failure over the ranking of the earlier search.
C16_Witness ==
  /\ Len(tasks) = 2
  /\ IsSearch(tasks[1]) /\ tasks[1].result = "done"
  /\ IsSearch(tasks[2]) /\ tasks[2].result = "failed"
  /\ display.by = tasks[1].requestId /\ Len(display.rows) = 2
  /\ status = Status(tasks[2].error, "error")

\* C17 (a failed query stays Failed until a query is reissued), as claimed:
\* while the newest search has failed with an embedder failure and its error
\* is in the status line, no step of an older search changes the status line.
EmbeddingFailed == "Embedding failed."
C17_OlderSearchKeepsFailure ==
  \A k \in 1..Len(tasks) :
     (/\ IsSearch(tasks[k])
      /\ tasks[k].result = "failed"
      /\ tasks[k].error = EmbeddingFailed
      /\ tasks[k].requestId = searchToken
      /\ status = Status(EmbeddingFailed, "error")
      /\ \E m \in 1..(k - 1) : IsSearch(tasks[m]) /\ tasks'[m] # tasks[m])
     => status' = status
C17_FailedUntilReissued == [][C17_OlderSearchKeepsFailure]_vars

\* C18 (pruneEmbeddingsIndex removes exactly the orphans): a step that runs the
\* prune removes from the cache every entry whose id no item of any area has
\* and keeps every other entry as it was; its caller goes on to
\* saveEmbeddingsIndex, with the pruned cache, iff an entry was removed.
C18_PruneStep ==
  pruned' =>
    \A k \in 1..Len(tasks) :
       (tasks[k].pc \in {"readIndex", "save"} /\ tasks'[k].pc # tasks[k].pc)
       => LET before == IF tasks[k].pc = "readIndex" THEN storedIndex ELSE embeddingsIndex
              live == LiveIds(snippetsByArea')
              removed == Keys(before) \ live IN
          /\ \A id \in AllIds : embeddingsIndex'[id] = IF id \in live THEN before[id] ELSE NoVec
          /\ tasks'[k].pc = "saveIndex" <=> removed # {}
          /\ tasks'[k].pc = "saveIndex" => tasks'[k].payload = embeddingsIndex'
          /\ storedIndex' = storedIndex
C18_PruneRemovesExactlyOrphans == [][C18_PruneStep]_vars
\* A delete whose prune removed the vector of the deleted item and kept
\* another: the caller awaits saveEmbeddingsIndex.
C18_Witness ==
  /\ pruned
  /\ \E k \in 1..Len(tasks) :
        /\ tasks[k].kind = "delete" /\ tasks[k].pc = "saveIndex"
        /\ embeddingsIndex[tasks[k].id] = NoVec /\ storedIndex[tasks[k].id] # NoVec
  /\ Keys(embeddingsIndex) # {}

\* C19 (reading the cache never computes, ranking never skips): when
\* rankSnippets resumes with an item whose id the cache lacks, the search ends
\* with an error (the missing-embedding error unless embedQuery itself failed),
\* renders nothing, leaves the cache in memory and in storage as it was and
\* sends no request.
Uncached(rows) == {k \in 1..Len(rows) : embeddingsIndex[rows[k].snippet.id] = NoVec}
C19_RankStepOnMissing ==
  \A k \in 1..Len(tasks) :
     (tasks[k].pc = "query" /\ tasks'[k].pc # "query" /\ Uncached(tasks[k].rows) # {})
     => /\ tasks'[k].result \in {"failed", "superseded"}
        /\ tasks'[k].error \in {MissingEmbedding, EmbeddingFailed}
        /\ tasks'[k].result = "failed" => status' = Status(tasks'[k].error, "error")
        /\ UNCHANGED <<embeddingsIndex, storedIndex, indexWrites, passes, display, title>>
C19_MissingVectorFailsRanking == [][C19_RankStepOnMissing]_vars
\* A search failed in rankSnippets on an item without a vector; the list on
\* display is not a ranking.
C19_Witness ==
  \E k \in 1..Len(tasks) :
     /\ IsSearch(tasks[k]) /\ tasks[k].result = "failed" /\ tasks[k].error = MissingEmbedding
     /\ status = Status(MissingEmbedding, "error")
     /\ display.by # tasks[k].requestId

\* C20 (rankSnippets returns every item once, by score descending, stably):
\* the ranking a search renders holds one row for every item of every area,
\* tagged with the area that holds it and scored with the cosine similarity of
\* the query and the item's vector; the rows are in descending score order and
\* rows of equal score are in input order (local before sync, then list
\* order).  Items scoring 1.0, 0.0, ~0.99 supplied as A, B, C come out A, C, B.
InputPosition(row) ==
  IF row.area = "local" THEN FindIndex(snippetsByArea["local"], row.snippet.id)
  ELSE Len(snippetsByArea["local"]) + FindIndex(snippetsByArea["sync"], row.snippet.id)
RowIds(rows) == [k \in 1..Len(rows) |-> rows[k].snippet.id]
C20_Ranked(k) ==
  LET rows == display'.rows
      qv == Embed(tasks'[k].query) IN
  /\ Len(rows) = Len(snippetsByArea["local"]) + Len(snippetsByArea["sync"])
  /\ \A a \in Areas : \A i \in 1..Len(snippetsByArea[a]) :
        Cardinality({r \in 1..Len(rows) : rows[r].snippet = snippetsByArea[a][i] /\ rows[r].area = a}) = 1
  /\ \A r \in 1..Len(rows) :
        rows[r].score = getCosineSimilarity(qv, embeddingsIndex[rows[r].snippet.id])
  /\ \A i \in 1..Len(rows), j \in 1..Len(rows) :
        i < j => /\ ~ScoreGreater(rows[j].score, rows[i].score)
                 /\ ~ScoreGreater(rows[i].score, rows[j].score)
                      => InputPosition(rows[i]) < InputPosition(rows[j])
  /\ (snippetsByArea["local"] \o snippetsByArea["sync"] = <<I1, I2, I3>> /\ tasks'[k].query = "a")
       => RowIds(rows) = <<"i1", "i3", "i2">>
C20_RenderedRanking ==
  \A k \in 1..Len(tasks') :
     (SearchSteps(k) /\ tasks'[k].result = "done") => C20_Ranked(k)
C20_RankOrder == [][C20_RenderedRanking]_vars
\* The query scores the two local items equally and the synced one higher:
\* the synced item comes first, the two local ones follow in their list order.
C20_Witness ==
  /\ snippetsByArea["local"] = <<I2, I1>> /\ snippetsByArea["sync"] = <<I3>>
  /\ Len(tasks) = 1 /\ tasks[1].result = "done" /\ tasks[1].query = "ab"
  /\ display.by = tasks[1].requestId
  /\ RowIds(display.rows) = <<"i3", "i2", "i1">>
  /\ display.rows[2].score = display.rows[3].score

\* C21 (the search token is monotonically increasing): searchToken never
\* decreases; the step that issues a non-empty query or a tab switch raises it
\* by one, above every value issued before, and a query keeps the new value as
\* its requestId; no two searches hold the same requestId and none holds a
\* value above searchToken; and a step that renders a ranking renders it for
\* the search whose requestId is the value of searchToken after the step.
C21_TokenStep ==
  /\ searchToken' >= searchToken
  /\ \A k \in 1..Len(tasks') :
        (k > Len(tasks) /\ (IsSearch(tasks'[k]) \/ tasks'[k].kind = "tab"))
        => /\ searchToken' = searchToken + 1
           /\ \A j \in 1..Len(tasks) : tasks[j].requestId < searchToken'
           /\ IsSearch(tasks'[k]) => tasks'[k].requestId = searchToken'
  /\ (display' # display /\ display'.by # 0)
     => /\ display'.by = searchToken'
        /\ \E k \in 1..Len(tasks') :
              /\ IsSearch(tasks'[k]) /\ tasks'[k].requestId = searchToken'
              /\ (k > Len(tasks) \/ Running(tasks[k])) /\ tasks'[k].result = "done"
C21_TokensDistinct ==
  \A j, k \in 1..Len(tasks) :
     (IsSearch(tasks[j]) /\ IsSearch(tasks[k]) /\ j < k)
     => (tasks[j].requestId < tasks[k].requestId /\ tasks[k].requestId <= searchToken)
C21_TokenMonotonic == [][C21_TokenStep]_vars /\ []C21_TokensDistinct
\* A tab switch and then a query were issued: the query holds the token above
\* the tab switch's, no later token was issued, and its ranking is on display.
C21_Witness ==
  /\ Len(tasks) = 2
  /\ tasks[1].kind = "tab" /\ tasks[1].result = "done"
  /\ IsSearch(tasks[2]) /\ tasks[2].requestId = 3 /\ searchToken = 3
  /\ tasks[2].result = "done" /\ display.by = searchToken

\* C22 (an empty query short-circuits to idle): the step in which
\* filterSnippets is called with a search box that is empty or blank settles
\* the call at once; it displays the items of the active area in stored order,
\* unranked, sets the idle status, sends no ensureEmbeddings and no embedQuery
\* request, and changes neither the cache (in memory or stored) nor the item
\* lists (in memory or stored).
C22_EmptyQueryStep ==
  \A k \in 1..Len(tasks') :
     (k > Len(tasks) /\ tasks'[k].kind = "filter" /\ searchInput' \in {"", " "})
     => /\ tasks'[k].result = "done" /\ tasks'[k].pc = "done" /\ tasks'[k].pass = 0
        /\ display'.rows = AreaRows(snippetsByArea[activeArea], activeArea)
        /\ display'.by = 0
        /\ status' = Status("", "idle")
        /\ \A j \in 1..Len(tasks) : tasks'[j] = tasks[j]
        /\ UNCHANGED <<passes, embeddingsIndex, storedIndex, indexWrites,
                       snippetsByArea, storedSnippets, activeArea>>
C22_EmptyQueryShortCircuits == [][C22_EmptyQueryStep]_vars
\* A blank query was entered while an item of the other area had no vector:
\* the active area's list is on display, idle, and no request was ever sent.
C22_Witness ==
  /\ Len(tasks) = 1 /\ IsEmptyFilter(tasks[1]) /\ searchInput = " "
  /\ display.by = 0 /\ Len(display.rows) = 1
  /\ status = Status("", "idle")
  /\ Uncached(getAllSnippetItems(snippetsByArea)) # {}
  /\ passes = <<>>

\* C23 (id backfill is persisted before it is canonical), as claimed: an id
\* the load generated for an item that had none appears in an ensureEmbeddings
\* request, in the cache (in memory or stored) or on display only once a
\* stored list holds it; and when the write of the backfilled list has failed,
\* the cache holds no entry under such an id.
BackfilledIds == {PopupId(1), PopupId(2)}
PersistedIds == Ids(storedSnippets["local"]) \cup Ids(storedSnippets["sync"])
InUse(id) ==
  \/ embeddingsIndex[id] # NoVec
  \/ storedIndex[id] # NoVec
  \/ \E i \in 1..Len(passes) : id \in Ids(passes[i].items)
  \/ \E k \in 1..Len(display.rows) : display.rows[k].snippet.id = id
C23_UsedOnlyOncePersisted ==
  \A id \in BackfilledIds \ PersistedIds : ~InUse(id)
C23_NoEntryAfterFailedWrite ==
  \A k \in 1..Len(tasks) :
     (/\ tasks[k].kind = "load" /\ tasks[k].result = "failed"
      /\ \E a \in Areas : NoId \in Ids(storedSnippets[a]))
     => \A id \in BackfilledIds \ PersistedIds : storedIndex[id] = NoVec
C23_BackfillPersistedFirst == C23_UsedOnlyOncePersisted /\ C23_NoEntryAfterFailedWrite

\* C24 (a capture stores the item, then ensures its embedding), as claimed:
\* while handleSaveSnippet awaits the embedder for the captured item, the
\* synced list in storage already holds the item; and once the call has
\* completed, the stored list holds the item and the stored cache holds a
\* vector under its id.
C24_StoredBeforeEmbedding ==
  \A c \in 1..Len(captures) :
     /\ captures[c].pc = "embed" => captures[c].id \in Ids(storedSnippets["sync"])
     /\ captures[c].result = "done"
          => /\ captures[c].id \in Ids(storedSnippets["sync"])
             /\ storedIndex[captures[c].id] # NoVec

\* C25 (a failed storage write is surfaced, not retried, not rolled back):
\* the step at which a write of deleteSnippet, moveSnippet, clearAllSnippets
\* or saveEmbeddingsIndex fails (the stored value is not the one written)
\* rejects the operation with the storage error and leaves the lists and the
\* cache in memory, and the storage, as they were; and an operation that has
\* rejected takes no further step, so it writes nothing again.
WriteFailure == "Storage write failed"
FailedWrite(k) ==
  /\ k \in 1..Len(tasks)
  /\ tasks'[k].pc # tasks[k].pc
  /\ \/ tasks[k].pc = "save" /\ storedSnippets'[tasks[k].area] # tasks[k].payload
     \/ tasks[k].pc = "saveTarget" /\ storedSnippets'[tasks[k].target] # tasks[k].payload
     \/ tasks[k].pc = "saveIndex" /\ storedIndex' # tasks[k].payload
C25_FailedWriteStep ==
  \A k \in 1..Len(tasks) :
     /\ FailedWrite(k)
        => /\ tasks'[k].result = "failed" /\ tasks'[k].error = WriteFailure
           /\ tasks'[k].pc = "done"
           /\ UNCHANGED <<snippetsByArea, embeddingsIndex>>
           /\ UNCHANGED <<storedSnippets, storedIndex, indexWrites>>
     /\ tasks[k].result = "failed" => tasks'[k] = tasks[k]
C25_WriteFailureSurfaced == [][C25_FailedWriteStep]_vars
\* A delete whose write failed: the operation has rejected, the item is gone
\* from the list in memory and still in storage.
C25_Witness ==
  \E k \in 1..Len(tasks) :
     /\ tasks[k].kind = "delete" /\ tasks[k].result = "failed" /\ tasks[k].error = WriteFailure
     /\ tasks[k].id \notin Ids(snippetsByArea[tasks[k].area])
     /\ tasks[k].id \in Ids(storedSnippets[tasks[k].area])

\* C26 (the offscreen document answers every request exactly once): a request
\* whose handler is still awaiting has sent no response and one whose handler
\* has ended has sent exactly one, either ok with a vector or not ok with an
\* error message; and a request whose text is empty or blank is answered not
\* ok in the step that receives it, without starting or awaiting the model's
\* initialization and without invoking the model.
EmptyText == "Embedding requires non-empty text."
C26_OneResponse ==
  \A k \in 1..Len(offscreen.requests) :
     LET r == offscreen.requests[k] IN
     /\ r.responses = (IF r.pc = "done" THEN 1 ELSE 0)
     /\ r.pc = "done" => IF r.ok THEN r.vector # NoVec /\ r.error = ""
                         ELSE r.vector = NoVec /\ r.error # ""
C26_EmptyTextStep ==
  \A k \in 1..Len(offscreen'.requests) :
     (k > Len(offscreen.requests) /\ offscreen'.requests[k].text \in {"", " "})
     => /\ offscreen'.requests[k].pc = "done"
        /\ ~offscreen'.requests[k].ok /\ offscreen'.requests[k].error = EmptyText
        /\ offscreen'.requests[k].attempt = 0
        /\ offscreen'.embedderPromise = offscreen.embedderPromise
        /\ offscreen'.attempts = offscreen.attempts
C26_AnsweredStep ==
  \A k \in 1..Len(offscreen.requests) :
     offscreen.requests[k].pc = "done" => offscreen'.requests[k] = offscreen.requests[k]
C26_ExactlyOneResponse == []C26_OneResponse /\ [][C26_EmptyTextStep /\ C26_AnsweredStep]_vars
\* A blank text was refused before any initialization, then a request was
\* answered with its vector and another with the error of an output without
\* vector data.
C26_Witness ==
  /\ Len(offscreen.requests) = 3
  /\ offscreen.requests[1].text = " " /\ offscreen.requests[1].error = EmptyText
  /\ offscreen.requests[1].responses = 1
  /\ offscreen.requests[2].ok /\ offscreen.requests[2].responses = 1
  /\ ~offscreen.requests[3].ok /\ offscreen.requests[3].responses = 1
  /\ offscreen.requests[3].error = "Embedding output is missing vector data."
  /\ offscreen.attempts = 1

\* C27 (one pass fills the missing ids in the supplied order, one at a time):
\* the embedder calls a pass has made are, in order, the ids of the items up
\* to its position that its loaded cache lacked (each id once); while a call
\* is in flight it is the call for the item at the position and every earlier
\* call has returned and left its vector in the map; and a pass issues a call
\* only as it starts or in the step in which its preceding call returns.
RECURSIVE MissingUpTo(_, _)
MissingUpTo(p, k) ==
  IF k = 0 THEN <<>>
  ELSE LET before == MissingUpTo(p, k - 1)
           id == p.items[k].id IN
       IF p.loaded[id] = NoVec /\ Count(before, id) = 0 THEN Append(before, id) ELSE before
C27_CallsInOrder ==
  \A i \in 1..Len(passes) :
     LET p == passes[i]
         n == IF p.pos > Len(p.items) THEN Len(p.items) ELSE p.pos IN
     /\ p.calls = MissingUpTo(p, n)
     /\ p.pc = "embed"
          => /\ p.calls[Len(p.calls)] = p.items[p.pos].id
             /\ p.updated = Len(p.calls) - 1
             /\ \A k \in 1..Len(p.calls) : (p.index[p.calls[k]] # NoVec) = (k < Len(p.calls))
C27_CallStep ==
  \A i \in 1..Len(passes) :
     Len(passes'[i].calls) > Len(passes[i].calls)
     => /\ Len(passes'[i].calls) = Len(passes[i].calls) + 1
        /\ \/ passes[i].pc = "load"
           \/ /\ passes[i].pc = "embed"
              /\ passes'[i].index[passes[i].items[passes[i].pos].id] # NoVec
              /\ passes'[i].updated = passes[i].updated + 1
C27_FillInSuppliedOrder == []C27_CallsInOrder /\ [][C27_CallStep]_vars
\* A pass given i2 then i1, both missing, has returned: it called the embedder
\* for i2, then for i1.
C27_Witness ==
  \E i \in 1..Len(passes) :
     /\ passes[i].pc = "ok" /\ passes[i].items = <<I2, I1>>
     /\ passes[i].calls = <<"i2", "i1">> /\ passes[i].updated = 2

\* C28 (a hung embedder call blocks only its own query): a search whose
\* embedder call does not return stays suspended on that call, unfinished, and
\* no step renders its ranking; and the search issued last, whose calls all
\* return, eventually ends with the ranking of its query on display.
C28_HungStays ==
  \A k \in 1..Len(tasks) :
     k < Len(tasks)
     => /\ Running(tasks[k]) /\ InEmbedderCall(tasks[k])
        /\ tasks'[k] = tasks[k]
        /\ (display' = display \/ display'.by # tasks[k].requestId)
C28_NewestCompletes ==
  (Len(tasks) = MaxOps)
  ~> (/\ Len(tasks) = MaxOps
      /\ LastTask.result = "done"
      /\ display.by = LastTask.requestId
      /\ Uncached(getAllSnippetItems(snippetsByArea)) = {}
      /\ display.rows = RankingFor(LastTask.query))
C29_AbsentDeleteStep ==
  \A k \in 1..Len(tasks') :
     (/\ k > Len(tasks) /\ tasks'[k].kind = "delete" /\ tasks'[k].id # NoId
      /\ tasks'[k].id \notin Ids(snippetsByArea[tasks'[k].area]))
     => /\ tasks'[k].result = "failed" /\ tasks'[k].error = NotFound
        /\ \A j \in 1..Len(tasks) : tasks'[j] = tasks[j]
        /\ UNCHANGED <<snippetsByArea, embeddingsIndex, passes>>
        /\ UNCHANGED <<storedSnippets, storedIndex, indexWrites>>
C29_DeleteOfAbsentFails == [][C29_AbsentDeleteStep]_vars
\* The same row was deleted twice: the first delete awaits its write, the
\* second was rejected, and storage still holds the item.
C29_Witness ==
  /\ Len(tasks) = 2
  /\ tasks[1].kind = "delete" /\ tasks[1].pc = "save"
  /\ tasks[2].kind = "delete" /\ tasks[2].id = tasks[1].id /\ tasks[2].area = tasks[1].area
  /\ tasks[2].result = "failed" /\ tasks[2].error = NotFound
  /\ tasks[1].id \in Ids(storedSnippets[tasks[1].area])
  /\ Len(snippetsByArea["local"]) = 1

\* C30 (getCosineSimilarity rejects invalid vectors): a call whose vectors
\* differ in length, or of which one is empty, holds a non-finite component
\* or has only zero components (zero norm) throws one of the function's
\* invalid-vector errors and returns no number; ([0,0],[1,1]) and
\* ([1,2],[1,2,3]) are such calls.
InvalidVector ==
  {"Cosine similarity requires vectors of equal length.",
   "Cosine similarity requires finite vector values.",
   "Cosine similarity requires non-zero vectors."}
ZeroNorm(v) == \A k \in 1..Len(v) : v[k] = 0
HasNonFinite(v) == \E k \in 1..Len(v) : v[k] = NonFinite
C30_InvalidVectorsRejected ==
  (/\ cosine.pc \in {"returned", "threw"}
   /\ \/ Len(cosine.a) # Len(cosine.b)
      \/ Len(cosine.a) = 0 \/ Len(cosine.b) = 0
      \/ HasNonFinite(cosine.a) \/ HasNonFinite(cosine.b)
      \/ ZeroNorm(cosine.a) \/ ZeroNorm(cosine.b))
  => /\ cosine.pc = "threw"
     /\ cosine.error \in InvalidVector
     /\ cosine.score = NoScore
\* The call on ([0,0],[1,1]) threw the zero-norm error.
C30_Witness ==
  /\ cosine.a = <<0, 0>> /\ cosine.b = <<1, 1>>
  /\ cosine.pc = "threw"
  /\ cosine.error = "Cosine similarity requires non-zero vectors."

\* C31 (overlapping writers lose no cache entry), as claimed: once every
\* ensureEmbeddings call, every capture and every popup operation has
\* finished, the persisted cache holds a vector for every item still stored
\* that a returned ensureEmbeddings call was given or a completed capture saved.
Quiescent ==
  /\ \A i \in 1..Len(passes) : ~PassRunning(passes[i])
  /\ \A c \in 1..Len(captures) : captures[c].pc = "done"
  /\ \A k \in 1..Len(tasks) : tasks[k].pc = "done"
WrittenIds ==
  UNION {Ids(passes[i].items) : i \in {j \in 1..Len(passes) : passes[j].pc = "ok"}}
    \cup {captures[c].id : c \in {d \in 1..Len(captures) : captures[d].result = "done"}}
C31_NoLostCacheEntry ==
  Quiescent => (WrittenIds \cap LiveIds(storedSnippets)) \subseteq Keys(storedIndex)

\* C32 (no captured snippet is lost), as claimed: a snippet whose capture
\* completed successfully is in a persisted list unless the user deleted it or
\* cleared the synced list; an overlapping delete, move or clear of the popup
\* does not drop it.
Captured == {captures[c].id : c \in {d \in 1..Len(captures) : captures[d].result = "done"}}
RemovedByUser(id) ==
  \E k \in 1..Len(tasks) :
     \/ tasks[k].kind = "delete" /\ tasks[k].id = id
     \/ tasks[k].kind = "clear" /\ tasks[k].area = "sync"
C32_NoCapturedSnippetLost ==
  \A id \in Captured : id \in LiveIds(storedSnippets) \/ RemovedByUser(id)

\* C33 (the offscreen document is created at most once), as claimed: at most
\* one createDocument call is issued while no document exists, and no
\* embedText call fails because another call created the document first.
C33_DocumentCreatedOnce ==
  /\ chromeOffscreen.creates <= 1
  /\ \A k \in 1..Len(chromeOffscreen.calls) : chromeOffscreen.calls[k].error # SingleDocument

\* C34 (display and search box agree at quiescence), as claimed: whenever no
\* popup operation is in flight, none has failed and the search box is empty,
\* the list displayed is the unranked list of the active area; and a search in
\* flight never renders its ranking once a delete, move, clear or tab switch
\* issued after it has finished (its updateDisplay cleared the search box).
DisplayUpdaters == {"delete", "move", "clear", "tab"}
C34_QuiescentDisplay ==
  (/\ \A k \in 1..Len(tasks) : tasks[k].pc = "done" /\ tasks[k].result # "failed"
   /\ Trim(searchInput) = "")
  => /\ display.by = 0
     /\ display.rows = AreaRows(snippetsByArea[activeArea], activeArea)
C34_NoRenderAfterUpdate ==
  \A k \in 1..Len(tasks) :
     (/\ IsSearch(tasks[k]) /\ Running(tasks[k])
      /\ \E j \in (k + 1)..Len(tasks) :
            tasks[j].kind \in DisplayUpdaters /\ tasks[j].result = "done")
     => (display' = display \/ display'.by # tasks[k].requestId)
C34_DisplayAgreesWithSearchBox == []C34_QuiescentDisplay /\ [][C34_NoRenderAfterUpdate]_vars

\* C35 (a failed ensureEmbeddings writes nothing): once an item of an
\* ensureEmbeddings call was found invalid or its embedder call failed, the
\* call has failed with that error (the requester is answered {ok: false,
\* error}); the step in which it fails writes nothing, and no vector the call
\* had embedded before the failure is in the persisted cache unless another
\* call put it there.
ThrownInLoop(p) == p.error \notin {"", WriteFailure}
C35_FailedAtOnce ==
  \A i \in 1..Len(passes) :
     ThrownInLoop(passes[i]) =>
        /\ passes[i].pc = "fail"
        /\ \A id \in Keys(passes[i].index) \ Keys(passes[i].loaded) :
              (\A j \in 1..Len(passes) : j # i => passes[j].index[id] = NoVec)
                 => storedIndex[id] = NoVec
C35_FailingStep ==
  \A i \in 1..Len(passes) :
     (~ThrownInLoop(passes[i]) /\ ThrownInLoop(passes'[i]))
       => UNCHANGED <<storedIndex, indexWrites>>
C35_FailedEnsureWritesNothing == []C35_FailedAtOnce /\ [][C35_FailingStep]_vars
\* A call embedded its first item, then failed on the blank text of the second;
\* the persisted cache is as it loaded it, without the first item's vector.
C35_Witness ==
  \E i \in 1..Len(passes) :
     /\ passes[i].pc = "fail" /\ passes[i].error = "Embedding item requires text."
     /\ passes[i].pos = 2 /\ passes[i].updated = 1
     /\ passes[i].index["i1"] # NoVec
     /\ storedIndex = passes[i].loaded /\ storedIndex["i1"] = NoVec

\* C36 (delete and clear touch only their target): the call of deleteSnippet
\* removes from the area's list the one item with the given id and keeps the
\* order of the others, the call of clearAllSnippets empties the active area's
\* list, and neither changes the other area's list or the cache; every later
\* step of the operation leaves both lists, the other area's persisted list
\* and the cached vector of every item still in a list.
OneRemoved(old, new, id) ==
  \E pos \in 1..Len(old) :
     /\ old[pos].id = id
     /\ Len(new) = Len(old) - 1
     /\ \A j \in 1..Len(new) : new[j] = IF j < pos THEN old[j] ELSE old[j + 1]
C36_CallStep ==
  \A k \in 1..Len(tasks') :
     (k > Len(tasks) /\ tasks'[k].pc = "save" /\ tasks'[k].kind \in {"delete", "clear"})
     => LET area == tasks'[k].area IN
        /\ snippetsByArea'[OtherArea(area)] = snippetsByArea[OtherArea(area)]
        /\ embeddingsIndex' = embeddingsIndex
        /\ UNCHANGED <<storedSnippets, storedIndex>>
        /\ IF tasks'[k].kind = "delete"
           THEN OneRemoved(snippetsByArea[area], snippetsByArea'[area], tasks'[k].id)
           ELSE area = activeArea /\ snippetsByArea'[area] = <<>>
C36_LaterStep ==
  \A k \in 1..Len(tasks) :
     (tasks[k].kind \in {"delete", "clear"} /\ tasks'[k].pc # tasks[k].pc)
     => /\ snippetsByArea' = snippetsByArea
        /\ storedSnippets'[OtherArea(tasks[k].area)] = storedSnippets[OtherArea(tasks[k].area)]
        /\ \A id \in LiveIds(snippetsByArea) \ {NoId} : embeddingsIndex'[id] = embeddingsIndex[id]
C37_ClickStep ==
  Len(listPopup'.deletes) > Len(listPopup.deletes) =>
     LET d == listPopup'.deletes[Len(listPopup'.deletes)] IN
     d.clicked.id \in Ids(listPopup.snippets) =>
        /\ d.snippet = d.clicked
        /\ Ids(listPopup'.snippets) = Ids(listPopup.snippets) \ {d.clicked.id}
C37_CacheEntryRemoved ==
  \A k \in 1..Len(listPopup.deletes) :
     LET d == listPopup.deletes[k] IN
     (d.result = "done" /\ d.snippet = d.clicked) =>
        /\ listPopup.embeddingsIndex[d.clicked.id] = NoVec
        /\ storedIndex[d.clicked.id] = NoVec
C37_ClickedRowDeleted == [][C37_ClickStep]_vars /\ []C37_CacheEntryRemoved

====
